---- MODULE Spec2Model ----
(***************************************************************************)
(* Answer extraction and list scoring of the function-point experiments:   *)
(*   examples/eif_selection/eif_selection.py                               *)
(*   examples/poc/transaction_selection_inference.py (same scoring code)   *)
(*   examples/poc/compare_got_results.py                                   *)
(* Strings are sequences of one-character strings; a text handed to the    *)
(* answer extractor is a sequence of lexical tokens.  Python floats are    *)
(* modelled as exact rationals <<numerator, denominator>>.                 *)
(***************************************************************************)
EXTENDS Integers, Sequences, FiniteSets, TLC

(***************************************************************************)
(* Rationals                                                               *)
(***************************************************************************)
RECURSIVE Gcd(_, _)
Gcd(a, b) == IF b = 0 THEN a ELSE Gcd(b, a % b)

Rat(n, d) ==
    LET g == Gcd(n, d) IN IF g = 0 THEN <<0, 1>> ELSE <<n \div g, d \div g>>

RZero == <<0, 1>>
ROne == <<1, 1>>
RAdd(x, y) == Rat(x[1] * y[2] + y[1] * x[2], x[2] * y[2])
RMul(x, y) == Rat(x[1] * y[1], x[2] * y[2])
RDiv(x, y) == Rat(x[1] * y[2], x[2] * y[1])
RLt(x, y) == x[1] * y[2] < y[1] * x[2]
RLe(x, y) == x[1] * y[2] <= y[1] * x[2]
RMax(x, y) == IF RLt(x, y) THEN y ELSE x
RMin(x, y) == IF RLt(y, x) THEN y ELSE x
RInt(n) == <<n, 1>>
InUnit(x) == RLe(RZero, x) /\ RLe(x, ROne)

(***************************************************************************)
(* Characters and Python's str methods.  The module is ASCII only: the     *)
(* fullwidth parentheses U+FF08 and U+FF09 are written "{" and "}".        *)
(***************************************************************************)
IsSpace(c) == c \in {" ", "\t", "\n"}

\* str.lower() on one character
LowerChar(c) ==
    CASE c = "A" -> "a"
      [] c = "B" -> "b"
      [] c = "C" -> "c"
      [] OTHER -> c

Lower(s) == [k \in 1..Len(s) |-> LowerChar(s[k])]

\* str.strip(): drop leading and trailing whitespace
RECURSIVE LStrip(_)
LStrip(s) == IF s # <<>> /\ IsSpace(Head(s)) THEN LStrip(Tail(s)) ELSE s

RECURSIVE RStrip(_)
RStrip(s) ==
    IF s # <<>> /\ IsSpace(s[Len(s)]) THEN RStrip(SubSeq(s, 1, Len(s) - 1)) ELSE s

Strip(s) == RStrip(LStrip(s))

\* str.split(): the maximal runs of non-whitespace characters, in order
RECURSIVE SplitFrom(_, _, _)
SplitFrom(s, cur, acc) ==
    IF s = <<>> THEN (IF cur = <<>> THEN acc ELSE Append(acc, cur))
    ELSE IF IsSpace(Head(s))
         THEN SplitFrom(Tail(s), <<>>, IF cur = <<>> THEN acc ELSE Append(acc, cur))
         ELSE SplitFrom(Tail(s), Append(cur, Head(s)), acc)

Split(s) == SplitFrom(s, <<>>, <<>>)

\* ' '.join(words)
RECURSIVE JoinSpace(_)
JoinSpace(ws) ==
    IF ws = <<>> THEN <<>>
    ELSE IF Len(ws) = 1 THEN ws[1]
    ELSE ws[1] \o <<" ">> \o JoinSpace(Tail(ws))

\* index of the first occurrence of character c in s at or after position k, 0 if none
RECURSIVE IndexFrom(_, _, _)
IndexFrom(s, c, k) ==
    IF k > Len(s) THEN 0 ELSE IF s[k] = c THEN k ELSE IndexFrom(s, c, k + 1)

\* re.sub(open [^close]* close, '', s): leftmost, non-overlapping matches removed
RECURSIVE RemoveParens(_, _, _)
RemoveParens(s, open, close) ==
    IF s = <<>> THEN <<>>
    ELSE IF Head(s) = open /\ IndexFrom(s, close, 2) # 0
         THEN RemoveParens(SubSeq(s, IndexFrom(s, close, 2) + 1, Len(s)), open, close)
         ELSE <<Head(s)>> \o RemoveParens(Tail(s), open, close)

\* normalize_eif_name / normalize_name (the two bodies are identical)
normalize_eif_name(name) ==
    LET n1 == Strip(Lower(name))
        n2 == JoinSpace(Split(n1))
        n3 == RemoveParens(n2, "(", ")")
        n4 == RemoveParens(n3, "{", "}")
    IN  Strip(n4)

\* set(s): the characters of s
CharSet(s) == {s[k] : k \in 1..Len(s)}

\* set(s.split()): the whitespace-delimited tokens of s
TokenSet(s) == LET w == Split(s) IN {w[k] : k \in 1..Len(w)}

Jaccard(set1, set2) ==
    IF Cardinality(set1 \cup set2) > 0
    THEN Rat(Cardinality(set1 \cap set2), Cardinality(set1 \cup set2))
    ELSE RZero

\* eif_selection._string_similarity
string_similarity_eif(s1, s2) ==
    IF s1 = <<>> \/ s2 = <<>> THEN RZero
    ELSE IF TokenSet(s1) = {} \/ TokenSet(s2) = {}
         THEN Jaccard(CharSet(s1), CharSet(s2))
         ELSE Jaccard(TokenSet(s1), TokenSet(s2))

\* compare_got_results.string_similarity
string_similarity(s1, s2) ==
    IF s1 = <<>> \/ s2 = <<>> THEN RZero ELSE Jaccard(CharSet(s1), CharSet(s2))

(***************************************************************************)
(* The language-model oracle                                               *)
(***************************************************************************)
\* Python's None where a string is expected; no string of the model equals it
None == <<"<None>">>

\* truth value of an optional string: None and '' are falsy
Truthy(v) == v # None /\ v # <<>>

IsDigit(c) == c \in {"0", "1", "2", "5", "7", "8", "9"}

DigitVal(c) ==
    CASE c = "0" -> 0 [] c = "1" -> 1 [] c = "2" -> 2 [] c = "5" -> 5
      [] c = "7" -> 7 [] c = "8" -> 8 [] c = "9" -> 9 [] OTHER -> 0

\* mutant of FirstDigit: the last digit of the text is found
LastDigit(t, k) ==
    LET ds == {j \in k..Len(t) : IsDigit(t[j])}
    IN IF ds = {} THEN 0 ELSE CHOOSE j \in ds : \A i \in ds : i <= j

RECURSIVE FirstDigit(_, _)
FirstDigit(t, k) ==
    IF k > Len(t) THEN 0 ELSE IF IsDigit(t[k]) THEN k ELSE FirstDigit(t, k + 1)

\* last index of the maximal run of digits that starts at k (k - 1 if t[k] is no digit)
RECURSIVE DigitsEnd(_, _)
DigitsEnd(t, k) ==
    IF k <= Len(t) /\ IsDigit(t[k]) THEN DigitsEnd(t, k + 1) ELSE k - 1

RECURSIVE DigitsValue(_)
DigitsValue(d) ==
    IF d = <<>> THEN 0 ELSE 10 * DigitsValue(SubSeq(d, 1, Len(d) - 1)) + DigitVal(d[Len(d)])

RECURSIVE Pow10(_)
Pow10(k) == IF k = 0 THEN 1 ELSE 10 * Pow10(k - 1)

\* re.search(r'(\d+\.?\d*)', text): is there a match
HasNumber(text) == FirstDigit(text, 1) # 0

\* float(match.group(1)) of the leftmost match: digits, an optional point, digits
FirstNumber(text) ==
    LET s == FirstDigit(text, 1)
        e1 == DigitsEnd(text, s)
        dot == e1 + 1 <= Len(text) /\ text[e1 + 1] = "."
        e2 == IF dot THEN DigitsEnd(text, e1 + 2) ELSE e1
        ip == DigitsValue(SubSeq(text, s, e1))
        fd == IF dot THEN SubSeq(text, e1 + 2, e2) ELSE <<>>
    IN  Rat(ip * Pow10(Len(fd)) + DigitsValue(fd), Pow10(Len(fd)))

\* mutant of Clamp: the score is returned as parsed
ClampNot(score) == score

\* max(0.0, min(1.0, score))
Clamp(score) == RMax(RZero, RMin(ROne, score))

\* What one lm.query + lm.get_response_texts does
LmRaise == [kind |-> "raise", text |-> <<>>]
LmEmpty == [kind |-> "empty", text |-> <<>>]
LmText(t) == [kind |-> "text", text |-> t]

\* the try block of check_eif_semantic_similarity: "return" with a score,
\* "except" when the LM raised, "fall" when the block ends without a return
SemanticTryBlock(outcome) ==
    IF outcome.kind = "raise" THEN [exit |-> "except", score |-> RZero]
    ELSE IF outcome.kind = "text" /\ HasNumber(Strip(outcome.text))
         THEN [exit |-> "return", score |-> Clamp(FirstNumber(Strip(outcome.text)))]
         ELSE [exit |-> "fall", score |-> RZero]

\* mutant of SemanticFallback: the fallback scores the normalised names
SemanticFallbackNormalized(name1, name2) ==
    [raised |-> FALSE,
     value |-> string_similarity_eif(normalize_eif_name(name1), normalize_eif_name(name2))]

\* the code after the try block: `fallback_score = _string_similarity(name1, name2)`
SemanticFallback(name1, name2) ==
    [raised |-> FALSE, value |-> string_similarity_eif(name1, name2)]

\* mutant of SemanticExit: only the empty and the unparseable reply are handled,
\* an exception of the LM leaves the function
SemanticExitUncaught(t, name1, name2) ==
    IF t.exit = "return" THEN [raised |-> FALSE, value |-> t.score]
    ELSE IF t.exit = "except" THEN [raised |-> TRUE, value |-> RZero]
    ELSE SemanticFallback(name1, name2)

\* how check_eif_semantic_similarity leaves its try statement: the return inside
\* it, or `except Exception` and the end of the block, both followed by the fallback
SemanticExit(t, name1, name2) ==
    IF t.exit = "return" THEN [raised |-> FALSE, value |-> t.score]
    ELSE SemanticFallback(name1, name2)

\* check_eif_semantic_similarity(name1, name2, lm, use_lm); lm is TRUE for an
\* LM instance and FALSE for None; the result says whether the call raised
check_eif_semantic_similarity(name1, name2, lm, use_lm, outcome) ==
    IF ~use_lm \/ ~lm
    THEN [raised |-> FALSE, value |-> string_similarity_eif(name1, name2)]
    ELSE SemanticExit(SemanticTryBlock(outcome), name1, name2)

\* compare_got_results.llm_semantic_similarity, _LLM_INSTANCE given as lm
llm_semantic_similarity(name1, name2, lm, outcome) ==
    IF ~lm
    THEN [raised |-> FALSE,
          value |-> string_similarity(normalize_eif_name(name1), normalize_eif_name(name2))]
    ELSE LET t == SemanticTryBlock(outcome)
         IN  IF t.exit = "return"
             THEN [raised |-> FALSE, value |-> t.score]
             ELSE [raised |-> FALSE,
                   value |-> string_similarity(normalize_eif_name(name1),
                                               normalize_eif_name(name2))]

\* compare_got_results.get_similarity
get_similarity(name1, name2, lm, use, outcome) ==
    IF use /\ lm
    THEN llm_semantic_similarity(name1, name2, lm, outcome)
    ELSE [raised |-> FALSE,
          value |-> string_similarity(normalize_eif_name(name1), normalize_eif_name(name2))]

(***************************************************************************)
(* State                                                                   *)
(***************************************************************************)
VARIABLES
    \* one scoring call: calculate_eif_similarity or calculate_semantic_similarity
    fn, predicted, ground_truth, lm, use_lm_semantic, similarity_threshold,
    pc, exact_matches, unmatched_pred, unmatched_truth, pi, ti,
    max_similarity, best_match, best_match_orig,
    fuzzy_score, matched_truth, match_details, oracle_calls, report,
    \* one normalisation of a name and of a variant of it
    n_pc, n_name, n_variant, n_edits, n_result,
    \* one call of the semantic oracle
    o_pc, o_fn, o_name1, o_name2, o_lm, o_use, o_outcome, o_result,
    \* one call of extract_answer
    e_pc, e_parser, e_input, e_text, e_result, e_stage, e_answer, e_trace,
    \* one call of run: the loop over samples and methods
    r_pc, r_ndata, r_nmethods, r_orig, r_budget, r_data, r_method,
    r_count, r_spent, r_last, r_result,
    \* the module globals of eif_selection, a thread calling set_scoring_lm and
    \* a thread calling score_assessment
    g_lm, g_use, s_pc, s_lm, s_use, s_done, installed, c_pc, c_lm, c_seen,
    \* two scoring calls on the same lists, one after the other
    d_pc, d_report

scoreVars == <<fn, predicted, ground_truth, lm, use_lm_semantic, similarity_threshold,
               pc, exact_matches, unmatched_pred, unmatched_truth, pi, ti,
               max_similarity, best_match, best_match_orig,
               fuzzy_score, matched_truth, match_details, oracle_calls, report>>
normVars == <<n_pc, n_name, n_variant, n_edits, n_result>>
oracleVars == <<o_pc, o_fn, o_name1, o_name2, o_lm, o_use, o_outcome, o_result>>
extractVars == <<e_pc, e_parser, e_input, e_text, e_result, e_stage, e_answer, e_trace>>
runVars == <<r_pc, r_ndata, r_nmethods, r_orig, r_budget, r_data, r_method,
             r_count, r_spent, r_last, r_result>>
configVars == <<g_lm, g_use, s_pc, s_lm, s_use, s_done, installed, c_pc, c_lm, c_seen>>
degVars == <<d_pc, d_report>>
hostVars == <<runVars, configVars, degVars>>
vars == <<scoreVars, normVars, oracleVars, extractVars, hostVars>>

NoReport == [kind |-> "none"]

ScoreIdle ==
    /\ fn = "none" /\ predicted = <<>> /\ ground_truth = <<>>
    /\ lm = FALSE /\ use_lm_semantic = FALSE /\ similarity_threshold = RZero
    /\ pc = "idle" /\ exact_matches = 0
    /\ unmatched_pred = <<>> /\ unmatched_truth = <<>> /\ pi = 0 /\ ti = 0
    /\ max_similarity = RZero /\ best_match = None /\ best_match_orig = None
    /\ fuzzy_score = RZero /\ matched_truth = {} /\ match_details = <<>>
    /\ oracle_calls = <<>> /\ report = NoReport

NormIdle ==
    /\ n_pc = "idle" /\ n_name = <<>> /\ n_variant = <<>> /\ n_edits = 0
    /\ n_result = <<>>

OracleIdle ==
    /\ o_pc = "idle" /\ o_fn = "none" /\ o_name1 = <<>> /\ o_name2 = <<>>
    /\ o_lm = FALSE /\ o_use = FALSE /\ o_outcome = LmEmpty
    /\ o_result = [raised |-> FALSE, value |-> RZero]

ExtractIdle ==
    /\ e_pc = "idle" /\ e_parser = "none" /\ e_input = <<>> /\ e_text = <<>>
    /\ e_result = <<>> /\ e_stage = "none" /\ e_answer = <<>> /\ e_trace = <<>>

NoExecution == [budget_before |-> 0, cost |-> 0, raised |-> FALSE]

RunIdle ==
    /\ r_pc = "idle" /\ r_ndata = 0 /\ r_nmethods = 0 /\ r_orig = 0 /\ r_budget = 0
    /\ r_data = 0 /\ r_method = 0 /\ r_count = 0 /\ r_spent = 0
    /\ r_last = NoExecution /\ r_result = 0

\* _GLOBAL_LM_FOR_SCORING = None; _USE_LLM_SEMANTIC = False
ConfigIdle ==
    /\ g_lm = "None" /\ g_use = FALSE
    /\ s_pc = "idle" /\ s_lm = "None" /\ s_use = FALSE /\ s_done = 0
    /\ installed = {<<"None", FALSE>>}
    /\ c_pc = "idle" /\ c_lm = "None" /\ c_seen = 0

DegIdle == d_pc = "idle" /\ d_report = <<>>

HostIdle == RunIdle /\ ConfigIdle /\ DegIdle

(***************************************************************************)
(* Inputs of a scoring call                                                *)
(***************************************************************************)
\* the most items the two lists of one scoring call hold together
MaxItems == 4

\* the names the lists are drawn from: a two-token name, a variant of it in
\* another case and with a trailing parenthetical, a name of the same two tokens
\* in the other order, and a name that is only a (fullwidth) parenthetical
NamePool ==
    { <<"a", " ", "b">>,
      <<"A", " ", "b", " ", "(", "c", ")">>,
      <<"b", " ", "a">>,
      <<"{", "c", "}">> }

RECURSIVE ListsOfLen(_)
ListsOfLen(n) ==
    IF n = 0 THEN {<<>>}
    ELSE {Append(l, x) : l \in ListsOfLen(n - 1), x \in NamePool}

ListPairs ==
    UNION {ListsOfLen(p) \X ListsOfLen(t) : <<p, t>> \in
              {q \in (0..MaxItems) \X (0..MaxItems) : q[1] + q[2] <= MaxItems}}

\* the fuzzy threshold of calculate_eif_similarity
EifThreshold == <<7, 10>>
\* similarity_threshold of calculate_semantic_similarity: its default value
SemThresholds == {<<1, 2>>}

\* what the LM may do on one oracle call of a scoring call
ScoringOutcomes ==
    { LmRaise,
      LmText(<<"0", ".", "5">>),
      LmText(<<"0", ".", "7">>),
      LmText(<<"0", ".", "8">>),
      LmText(<<"2">>) }

(***************************************************************************)
(* calculate_eif_similarity / calculate_semantic_similarity                *)
(***************************************************************************)
NormList(l) == [k \in 1..Len(l) |-> normalize_eif_name(l[k])]
Range(f) == {f[k] : k \in DOMAIN f}

\* mutant of Unmatched: exact-matched items stay in the fuzzy stage
UnmatchedAll(l, excluded) == [k \in 1..Len(l) |-> <<normalize_eif_name(l[k]), l[k]>>]

\* [(norm, orig) for ... if norm not in excluded], in list order
RECURSIVE Unmatched(_, _)
Unmatched(l, excluded) ==
    IF l = <<>> THEN <<>>
    ELSE LET n == normalize_eif_name(Head(l))
         IN  (IF n \in excluded THEN <<>> ELSE << <<n, Head(l)>> >>)
             \o Unmatched(Tail(l), excluded)

\* next(orig for (norm, orig) in list if norm == n)
RECURSIVE FirstWithNorm(_, _)
FirstWithNorm(l, n) ==
    IF l = <<>> THEN None
    ELSE IF normalize_eif_name(Head(l)) = n THEN Head(l) ELSE FirstWithNorm(Tail(l), n)

\* round(x, k digits): to the nearest multiple of 1/scale, ties to even
RoundTo(x, scale) ==
    LET n == x[1] * scale
        q == n \div x[2]
        r == n % x[2]
    IN  IF 2 * r > x[2] \/ (2 * r = x[2] /\ q % 2 = 1)
        THEN Rat(q + 1, scale) ELSE Rat(q, scale)

F1(precision, recall) ==
    IF RAdd(precision, recall) = RZero THEN RZero
    ELSE RDiv(RMul(RInt(2), RMul(precision, recall)), RAdd(precision, recall))

\* mutant of EmptyReport: any empty list counts as full agreement
EmptyReportAlwaysOne(v) ==
    [kind |-> "report", f1_score |-> ROne, precision |-> ROne, recall |-> ROne,
     exact_matches |-> IF fn = "eif" THEN 0 ELSE {}, fuzzy_score |-> RZero,
     matches |-> <<>>, unmatched_predicted |-> <<>>, unmatched_ground_truth |-> <<>>]

EmptyReport(v) ==
    [kind |-> "report", f1_score |-> v, precision |-> v, recall |-> v,
     exact_matches |-> IF fn = "eif" THEN 0 ELSE {}, fuzzy_score |-> RZero, matches |-> <<>>,
     unmatched_predicted |-> <<>>, unmatched_ground_truth |-> <<>>]

\* the exact-match stage: the value of exact_matches and the normalised forms
\* that are withheld from the fuzzy stage on either side
ExactNorms == Range(NormList(predicted)) \cap Range(NormList(ground_truth))

ExactMatchesEif == Cardinality(ExactNorms)

\* compare_got_results builds one record per common normalised form, from the
\* first original on each side; the records are kept as a set (the list is in
\* set-iteration order, which nothing reads)
ExactMatchesSem ==
    {[predicted |-> FirstWithNorm(predicted, n),
      ground_truth |-> FirstWithNorm(ground_truth, n)] :
        n \in {m \in ExactNorms : FirstWithNorm(predicted, m) # <<>>
                                   /\ FirstWithNorm(ground_truth, m) # <<>>}}

\* mutant of ScoreStart: the exact stage filters the caller's lists in place
\* instead of building unmatched_pred and unmatched_truth beside them
ScoreStartInPlace ==
    /\ pc = "start"
    /\ exact_matches' = IF fn = "eif" THEN ExactMatchesEif ELSE ExactMatchesSem
    /\ unmatched_pred' = Unmatched(predicted, ExactNorms)
    /\ unmatched_truth' = Unmatched(ground_truth, ExactNorms)
    /\ predicted' = [k \in 1..Len(unmatched_pred') |-> unmatched_pred'[k][2]]
    /\ ground_truth' = [k \in 1..Len(unmatched_truth') |-> unmatched_truth'[k][2]]
    /\ pi' = 1 /\ ti' = 1
    /\ pc' = "loop"
    /\ UNCHANGED <<fn, lm, use_lm_semantic, similarity_threshold, report,
                   max_similarity, best_match, best_match_orig, fuzzy_score,
                   matched_truth, match_details, oracle_calls>>
    /\ UNCHANGED <<normVars, oracleVars, extractVars, hostVars>>

ScoreStart ==
    /\ pc = "start"
    /\ IF predicted = <<>> /\ ground_truth = <<>>
       THEN /\ report' = EmptyReport(ROne)
            /\ pc' = "done"
            /\ UNCHANGED <<exact_matches, unmatched_pred, unmatched_truth, pi, ti>>
       ELSE IF predicted = <<>> \/ ground_truth = <<>>
       THEN /\ report' = [EmptyReport(RZero) EXCEPT
                             !.unmatched_predicted = IF fn = "sem" THEN predicted ELSE <<>>,
                             !.unmatched_ground_truth =
                                 IF fn = "sem" THEN ground_truth ELSE <<>>]
            /\ pc' = "done"
            /\ UNCHANGED <<exact_matches, unmatched_pred, unmatched_truth, pi, ti>>
       ELSE /\ exact_matches' = IF fn = "eif" THEN ExactMatchesEif ELSE ExactMatchesSem
            /\ unmatched_pred' = Unmatched(predicted, ExactNorms)
            /\ unmatched_truth' = Unmatched(ground_truth, ExactNorms)
            /\ pi' = 1 /\ ti' = 1
            /\ pc' = "loop"
            /\ UNCHANGED report
    /\ UNCHANGED <<fn, predicted, ground_truth, lm, use_lm_semantic, similarity_threshold,
                   max_similarity, best_match, best_match_orig, fuzzy_score,
                   matched_truth, match_details, oracle_calls>>
    /\ UNCHANGED <<normVars, oracleVars, extractVars, hostVars>>

InInner == pc = "loop" /\ pi <= Len(unmatched_pred) /\ ti <= Len(unmatched_truth)

\* mutant of IsClaimed: a claimed ground-truth item is offered again
IsClaimedNever(truth_orig, matched) == FALSE

\* `truth_orig in matched_truth`
IsClaimed(truth_orig, matched) == truth_orig \in matched

\* `if truth_orig in matched_truth: continue`
SkipClaimed ==
    /\ InInner
    /\ IsClaimed(unmatched_truth[ti][2], matched_truth)
    /\ ti' = ti + 1
    /\ UNCHANGED <<fn, predicted, ground_truth, lm, use_lm_semantic, similarity_threshold,
                   pc, exact_matches, unmatched_pred, unmatched_truth, pi,
                   max_similarity, best_match, best_match_orig, fuzzy_score,
                   matched_truth, match_details, oracle_calls, report>>
    /\ UNCHANGED <<normVars, oracleVars, extractVars, hostVars>>

\* mutant of PairSimilarity: the LM is asked whenever one is set, whatever
\* use_lm_semantic says
PairSimilarityWheneverLm(outcome) ==
    LET p == unmatched_pred[pi]
        t == unmatched_truth[ti]
    IN  IF lm
        THEN check_eif_semantic_similarity(p[2], t[2], lm, TRUE, outcome)
        ELSE [raised |-> FALSE, value |-> string_similarity_eif(p[1], t[1])]

\* the similarity of the current pair, for one outcome of the LM
PairSimilarity(outcome) ==
    LET p == unmatched_pred[pi]
        t == unmatched_truth[ti]
    IN  IF fn = "eif"
        THEN IF use_lm_semantic /\ lm
             THEN check_eif_semantic_similarity(p[2], t[2], lm, TRUE, outcome)
             ELSE [raised |-> FALSE, value |-> string_similarity_eif(p[1], t[1])]
        ELSE get_similarity(p[2], t[2], lm, use_lm_semantic, outcome)

\* mutant of Better: an equal score replaces the current best as well
BetterOrEqual(similarity, current) == RLe(current, similarity)

\* `if similarity > max_similarity:` and the three assignments under it
Better(similarity, current) == RLt(current, similarity)

CompareWith(outcome) ==
    LET sim == PairSimilarity(outcome)
        t == unmatched_truth[ti]
    IN  /\ oracle_calls' = Append(oracle_calls,
              [p |-> pi, t |-> ti, pred |-> unmatched_pred[pi][2], truth |-> t[2],
               semantic |-> (use_lm_semantic /\ lm)])
        /\ IF sim.raised
           THEN /\ pc' = "raised"
                /\ UNCHANGED <<max_similarity, best_match, best_match_orig, ti>>
           ELSE /\ pc' = pc
                /\ ti' = ti + 1
                /\ IF Better(sim.value, max_similarity)
                   THEN /\ max_similarity' = sim.value
                        /\ best_match' = t[1]
                        /\ best_match_orig' = t[2]
                   ELSE UNCHANGED <<max_similarity, best_match, best_match_orig>>
        /\ UNCHANGED <<fn, predicted, ground_truth, lm, use_lm_semantic,
                       similarity_threshold, exact_matches, unmatched_pred,
                       unmatched_truth, pi, fuzzy_score, matched_truth, match_details,
                       report>>
        /\ UNCHANGED <<normVars, oracleVars, extractVars, hostVars>>

\* one pass of the inner loop with the lexical oracle
CompareLexical ==
    /\ InInner
    /\ ~IsClaimed(unmatched_truth[ti][2], matched_truth)
    /\ ~(use_lm_semantic /\ lm)
    /\ CompareWith(LmEmpty)

\* one pass of the inner loop with the semantic oracle, for every LM outcome
CompareSemantic ==
    /\ InInner
    /\ ~IsClaimed(unmatched_truth[ti][2], matched_truth)
    /\ use_lm_semantic /\ lm
    /\ \E outcome \in ScoringOutcomes : CompareWith(outcome)

\* lm.query(prompt, num_responses=1) is a blocking call without a timeout:
\* an LM that never answers leaves check_eif_semantic_similarity, and the
\* scoring call with it, waiting inside the call
OracleHangs ==
    /\ InInner
    /\ ~IsClaimed(unmatched_truth[ti][2], matched_truth)
    /\ use_lm_semantic /\ lm
    /\ oracle_calls' = Append(oracle_calls,
          [p |-> pi, t |-> ti, pred |-> unmatched_pred[pi][2],
           truth |-> unmatched_truth[ti][2], semantic |-> TRUE])
    /\ pc' = "waiting"
    /\ UNCHANGED <<fn, predicted, ground_truth, lm, use_lm_semantic, similarity_threshold,
                   exact_matches, unmatched_pred, unmatched_truth, pi, ti,
                   max_similarity, best_match, best_match_orig, fuzzy_score,
                   matched_truth, match_details, report>>
    /\ UNCHANGED <<normVars, oracleVars, extractVars, hostVars>>

\* the acceptance test after the inner loop:
\*   eif_selection:        max_similarity > 0.7 and best_match
\*   compare_got_results:  max_similarity >= similarity_threshold and best_match_orig
Accepts(f, sim, threshold, bm, bmo) ==
    IF f = "eif"
    THEN RLt(threshold, sim) /\ Truthy(bm)
    ELSE RLe(threshold, sim) /\ Truthy(bmo)

Decide ==
    /\ pc = "loop" /\ pi <= Len(unmatched_pred) /\ ti > Len(unmatched_truth)
    /\ IF Accepts(fn, max_similarity, similarity_threshold, best_match, best_match_orig)
       THEN /\ fuzzy_score' = RAdd(fuzzy_score, max_similarity)
            /\ matched_truth' = matched_truth \cup {best_match_orig}
            /\ match_details' = Append(match_details,
                  [p |-> pi, predicted |-> unmatched_pred[pi][2],
                   ground_truth |-> best_match_orig, score |-> max_similarity])
       ELSE UNCHANGED <<fuzzy_score, matched_truth, match_details>>
    /\ pi' = pi + 1 /\ ti' = 1
    /\ max_similarity' = RZero /\ best_match' = None /\ best_match_orig' = None
    /\ UNCHANGED <<fn, predicted, ground_truth, lm, use_lm_semantic, similarity_threshold,
                   pc, exact_matches, unmatched_pred, unmatched_truth, oracle_calls,
                   report>>
    /\ UNCHANGED <<normVars, oracleVars, extractVars, hostVars>>

\* the originals of a list of (norm, orig) pairs that pass a test on the original
RECURSIVE OrigsNotIn(_, _)
OrigsNotIn(l, s) ==
    IF l = <<>> THEN <<>>
    ELSE (IF Head(l)[2] \in s THEN <<>> ELSE <<Head(l)[2]>>) \o OrigsNotIn(Tail(l), s)

ExactCount == IF fn = "eif" THEN exact_matches ELSE Cardinality(exact_matches)

\* mutant of TotalMatches: every accepted fuzzy match counts as a flat 1
TotalMatchesFlat == RInt(ExactCount + Len(match_details))

TotalMatches == RAdd(RInt(ExactCount), fuzzy_score)

FinalReport ==
    LET precision == RDiv(TotalMatches, RInt(Len(predicted)))
        recall == RDiv(TotalMatches, RInt(Len(ground_truth)))
        f1 == F1(precision, recall)
    IN  IF fn = "eif"
        THEN [kind |-> "report", f1_score |-> f1, precision |-> precision,
              recall |-> recall, exact_matches |-> exact_matches,
              fuzzy_score |-> fuzzy_score, matches |-> match_details,
              unmatched_predicted |-> <<>>, unmatched_ground_truth |-> <<>>]
        ELSE [kind |-> "report", f1_score |-> RoundTo(f1, 1000),
              precision |-> RoundTo(precision, 1000), recall |-> RoundTo(recall, 1000),
              exact_matches |-> exact_matches, fuzzy_score |-> fuzzy_score,
              matches |-> [k \in 1..Len(match_details) |->
                              [match_details[k] EXCEPT !.score = RoundTo(@, 100)]],
              unmatched_predicted |->
                  OrigsNotIn(unmatched_pred,
                             {match_details[k].predicted : k \in 1..Len(match_details)}),
              unmatched_ground_truth |-> OrigsNotIn(unmatched_truth, matched_truth)]

Finish ==
    /\ pc = "loop" /\ pi > Len(unmatched_pred)
    /\ report' = FinalReport
    /\ pc' = "done"
    /\ UNCHANGED <<fn, predicted, ground_truth, lm, use_lm_semantic, similarity_threshold,
                   exact_matches, unmatched_pred, unmatched_truth, pi, ti,
                   max_similarity, best_match, best_match_orig, fuzzy_score,
                   matched_truth, match_details, oracle_calls>>
    /\ UNCHANGED <<normVars, oracleVars, extractVars, hostVars>>

(***************************************************************************)
(* One call of the semantic oracle on its own                              *)
(***************************************************************************)
\* the longest reply text of the LM
MaxReplyLen == 3

ReplyAlphabet == {"0", "7", "2", ".", "x", " "}

RECURSIVE TextsOfLen(_, _)
TextsOfLen(alphabet, n) ==
    IF n = 0 THEN {<<>>}
    ELSE {Append(t, c) : t \in TextsOfLen(alphabet, n - 1), c \in alphabet}

ReplyTexts == UNION {TextsOfLen(ReplyAlphabet, n) : n \in 0..MaxReplyLen}

LmOutcomes == {LmRaise, LmEmpty} \cup {LmText(t) : t \in ReplyTexts}

\* the names of one oracle call: those of the scoring lists and two names
\* written without token boundaries that share one character of their two
OracleNames == NamePool \cup { <<"a", "b">>, <<"b", "c">> }

\* check_eif_semantic_similarity(name1, name2, lm, use_lm=True) or
\* llm_semantic_similarity(name1, name2), for every outcome of the LM
OracleCall ==
    /\ o_pc = "call"
    /\ \E outcome \in LmOutcomes :
          /\ o_outcome' = outcome
          /\ o_result' = IF o_fn = "eif"
                         THEN check_eif_semantic_similarity(o_name1, o_name2, o_lm,
                                                            o_use, outcome)
                         ELSE llm_semantic_similarity(o_name1, o_name2, o_lm, outcome)
    /\ o_pc' = "done"
    /\ UNCHANGED <<o_fn, o_name1, o_name2, o_lm, o_use>>
    /\ UNCHANGED <<scoreVars, normVars, extractVars, hostVars>>

InitOracle ==
    /\ o_pc = "call"
    /\ o_fn \in {"eif", "sem"}
    /\ o_name1 \in OracleNames /\ o_name2 \in OracleNames
    /\ o_lm \in BOOLEAN /\ o_use \in BOOLEAN
    /\ o_outcome = LmEmpty
    /\ o_result = [raised |-> FALSE, value |-> RZero]
    /\ ScoreIdle /\ NormIdle /\ ExtractIdle /\ HostIdle

NextOracle == OracleCall

SpecOracle == InitOracle /\ [][NextOracle]_vars

(***************************************************************************)
(* The semantic oracle of eif_selection backed by a DeepSeek instance      *)
(***************************************************************************)
\* "Error: " + str(e)
ErrorText(message) == <<"E", "r", "r", "o", "r", ":", " ">> \o message

\* str(e) of the TypeError of item["message"] on an item that is a str
TypeErrorMessage ==
    <<"s", "t", "r", "i", "n", "g", " ", "i", "n", "d", "i", "c", "e", "s", " ",
      "m", "u", "s", "t", " ", "b", "e", " ", "i", "n", "t", "e", "g", "e", "r", "s">>

\* str(e) of an error of the client, as of a failed connection
ApiErrorMessage ==
    <<"C", "o", "n", "n", "e", "c", "t", "i", "o", "n", " ", "e", "r", "r", "o", "r", ".">>

\* DeepSeek.get_response_texts: the response is the client's response object
\* (its choices given by their message contents) or a list (of str here, on
\* which item["message"] raises); an exception gives the one error text
get_response_texts(response) ==
    IF response.type = "object"
    THEN [k \in 1..Len(response.choices) |-> Strip(response.choices[k])]
    ELSE IF response.items = <<>> THEN <<>>
         ELSE <<ErrorText(TypeErrorMessage)>>

\* DeepSeek.query for one outcome of the service: the list of the response
\* texts, or the one error text when the client raised
query(service) ==
    IF service.kind = "raise" THEN <<ErrorText(ApiErrorMessage)>>
    ELSE get_response_texts(
             [type |-> "object",
              choices |-> IF service.kind = "text" THEN <<service.text>> ELSE <<>>])

\* query_response = lm.query(prompt, num_responses=1);
\* response_texts = lm.get_response_texts(query_response): what the try block
\* of check_eif_semantic_similarity has to parse
DeepSeekReply(service) ==
    LET query_response == [type |-> "list", items |-> query(service)]
        response_texts == get_response_texts(query_response)
    IN  IF response_texts = <<>> THEN LmEmpty ELSE LmText(response_texts[1])

\* check_eif_semantic_similarity(name1, name2, lm, use_lm=True) with a DeepSeek
\* instance as lm, for every outcome of the service
DeepSeekCall ==
    /\ o_pc = "call"
    /\ \E service \in LmOutcomes :
          /\ o_outcome' = service
          /\ o_result' = check_eif_semantic_similarity(o_name1, o_name2, o_lm, o_use,
                                                       DeepSeekReply(service))
    /\ o_pc' = "done"
    /\ UNCHANGED <<o_fn, o_name1, o_name2, o_lm, o_use>>
    /\ UNCHANGED <<scoreVars, normVars, extractVars, hostVars>>

InitDeepSeek ==
    /\ o_pc = "call"
    /\ o_fn = "eif"
    /\ o_name1 \in OracleNames /\ o_name2 \in OracleNames
    /\ o_lm = TRUE /\ o_use = TRUE
    /\ o_outcome = LmEmpty
    /\ o_result = [raised |-> FALSE, value |-> RZero]
    /\ ScoreIdle /\ NormIdle /\ ExtractIdle /\ HostIdle

NextDeepSeek == DeepSeekCall

SpecDeepSeek == InitDeepSeek /\ [][NextDeepSeek]_vars

(***************************************************************************)
(* Normalisation of a name and of variants of it                           *)
(***************************************************************************)
\* the longest name that is edited, and the most edits made to it
MaxNameLen == 3
MaxEdits == 2

NameAlphabet == {"a", "B", " "}
PlainNames == UNION {TextsOfLen(NameAlphabet, n) : n \in 0..MaxNameLen}

FlipCase(c) ==
    CASE c = "a" -> "A" [] c = "A" -> "a" [] c = "b" -> "B" [] c = "B" -> "b"
      [] OTHER -> c

InsertAt(s, k, t) == SubSeq(s, 1, k) \o t \o SubSeq(s, k + 1, Len(s))

NormBoth(a, b) == <<normalize_eif_name(a), normalize_eif_name(b)>>

Edited(v) ==
    /\ n_pc = "edit" /\ n_edits < MaxEdits
    /\ n_variant' = v
    /\ n_edits' = n_edits + 1
    /\ n_result' = NormBoth(n_name, v)
    /\ UNCHANGED <<n_pc, n_name>>
    /\ UNCHANGED <<scoreVars, oracleVars, extractVars, hostVars>>

\* the variant differs in the case of one letter
EditCase ==
    \E k \in 1..Len(n_variant) :
        /\ FlipCase(n_variant[k]) # n_variant[k]
        /\ Edited([n_variant EXCEPT ![k] = FlipCase(@)])

\* the variant has one more leading or trailing blank
EditPad == \E v \in {<<" ">> \o n_variant, n_variant \o <<" ">>} : Edited(v)

\* the variant has an internal run of blanks that is one blank longer
EditWhitespaceRun ==
    \E k \in 2..(Len(n_variant) - 1) :
        /\ n_variant[k] = " "
        /\ Edited(InsertAt(n_variant, k, <<" ">>))

\* position k of s is outside every parenthetical of s
Outside(s, k) ==
    \A o \in {"(", "{"} :
        Cardinality({j \in 1..k : s[j] = o})
            = Cardinality({j \in 1..k : s[j] = (IF o = "(" THEN ")" ELSE "}")})

\* the variant has one more parenthetical, ASCII or fullwidth, at any place
\* that is not inside another parenthetical
EditParenthetical ==
    \E k \in 0..Len(n_variant) :
        /\ Outside(n_variant, k)
        /\ \E t \in {<<"(", "c", ")">>, <<"{", "c", "}">>} :
              Edited(InsertAt(n_variant, k, t))

InitNorm ==
    /\ n_pc = "edit"
    /\ n_name \in PlainNames
    /\ n_variant = n_name
    /\ n_edits = 0
    /\ n_result = NormBoth(n_name, n_name)
    /\ ScoreIdle /\ OracleIdle /\ ExtractIdle /\ HostIdle

NextNorm ==
    \/ EditCase
    \/ EditPad
    \/ EditWhitespaceRun
    \/ EditParenthetical

SpecNorm == InitNorm /\ [][NextNorm]_vars

(***************************************************************************)
(* Texts handed to extract_answer.  A text is a sequence of lexical        *)
(* tokens; each token stands for a fixed run of characters that the        *)
(* regular expressions of the parser treat alike.                          *)
(***************************************************************************)
Final == "<final>"            \* U+6700 U+7EC8, "final"
Improved == "<improved>"      \* "improved" (4 characters)
View == "<view>"              \* "identified from this view" (6 characters)
Eif == "EIF"
Fp == "<fp>"                  \* "function point" (3 characters)
ListW == "<list>"             \* "list" (2 characters)
AsFollows == "<asfollows>"    \* "as follows" (2 characters)
According == "<according>"    \* "according to" (2 characters)
Identified == "<identified>"  \* "identified" (3 characters)
Colon == ":"                  \* ":" or the fullwidth colon
Bold == "**"
LBr == "["
RBr == "]"
Comma == ","
FwComma == "<,>"              \* the fullwidth comma
Semi == ";"                   \* ";", the fullwidth semicolon or the ideographic comma
Sp == " "
Nl == "\n"
FwParen == "{"                \* the fullwidth opening parenthesis
Wu == "<wu>"                  \* U+65E0, "none"
Period == "<.>"               \* the ideographic full stop
NoneCap == "None"
NoneLow == "none"
Num == "1."                   \* an ordinal marker: digits and a dot
Dash == "-"
Prose == "<prose>"            \* five characters of prose without any of the above
Pad == "<pad>"                \* a line of prose of LongText characters
Job == "JOB"
Emp == "Emp"
Longname == "Longname"        \* a capitalised word of 60 letters

\* len(text) > 500 selects the long-text handling
LongText == 500

TokLen(t) ==
    CASE t = Pad -> LongText
      [] t = Longname -> 60
      [] t = View -> 6
      [] t = Prose -> 5
      [] t \in {Improved, NoneCap, NoneLow} -> 4
      [] t \in {Eif, Fp, Identified, Job, Emp} -> 3
      [] t \in {Final, ListW, AsFollows, According, Bold, Num} -> 2
      [] OTHER -> 1

RECURSIVE TextLen(_)
TextLen(s) == IF s = <<>> THEN 0 ELSE TokLen(Head(s)) + TextLen(Tail(s))

\* \s
IsWs(t) == t \in {Sp, Nl}
\* every character in [A-Z]
IsUpperTok(t) == t \in {Eif, Job}
\* [A-Z] followed by characters in [A-Za-z]
IsCapTok(t) == t \in {Eif, Job, Emp, Longname, NoneCap}
\* every character in [A-Za-z]
IsLetterTok(t) == t \in {Eif, Job, Emp, Longname, NoneCap, NoneLow}

\* str.strip()
RECURSIVE StripToks(_)
StripToks(s) ==
    IF s = <<>> THEN s
    ELSE IF IsWs(s[1]) THEN StripToks(Tail(s))
    ELSE IF IsWs(s[Len(s)]) THEN StripToks(SubSeq(s, 1, Len(s) - 1))
    ELSE s

\* the first index from i on whose token is not whitespace (Len(s) + 1 if none)
RECURSIVE SkipWs(_, _)
SkipWs(s, i) == IF i <= Len(s) /\ IsWs(s[i]) THEN SkipWs(s, i + 1) ELSE i

\* the first index from i on whose token is in stop (Len(s) + 1 if none)
RECURSIVE FindTok(_, _, _)
FindTok(s, i, stop) ==
    IF i <= Len(s) /\ s[i] \notin stop THEN FindTok(s, i + 1, stop) ELSE i

HasTok(s, toks) == \E i \in 1..Len(s) : s[i] \in toks

MinOf(S) == CHOOSE x \in S : \A y \in S : x <= y

\* mutant of SplitOn: only the first item is kept
SplitOnFirstOnly(s, seps) == <<SubSeq(s, 1, FindTok(s, 1, seps) - 1)>>

\* re.split(r'[,...]', s) for the separators in seps
RECURSIVE SplitOn(_, _)
SplitOn(s, seps) ==
    LET k == FindTok(s, 1, seps)
    IN IF k > Len(s) THEN <<s>>
       ELSE <<SubSeq(s, 1, k - 1)>> \o SplitOn(SubSeq(s, k + 1, Len(s)), seps)

Separators == {Comma, FwComma, Semi}

\* ' '.join(name.split())
RECURSIVE CollapseWs(_)
CollapseWs(s) ==
    LET t == StripToks(s)
        k == FindTok(t, 1, {Sp, Nl})
    IN IF k > Len(t) THEN t
       ELSE SubSeq(t, 1, k - 1) \o <<Sp>> \o CollapseWs(SubSeq(t, k + 1, Len(t)))

RECURSIVE RemoveToks(_, _)
RemoveToks(s, toks) ==
    IF s = <<>> THEN s
    ELSE IF Head(s) \in toks THEN RemoveToks(Tail(s), toks)
    ELSE <<Head(s)>> \o RemoveToks(Tail(s), toks)

\* re.sub(r'^X\s*', '', name) for a one-token prefix X
DropPrefix(s, toks) ==
    IF s # <<>> /\ s[1] \in toks THEN SubSeq(s, SkipWs(s, 2), Len(s)) ELSE s

clean_eif_name(name) ==
    CollapseWs(RemoveToks(DropPrefix(DropPrefix(name, {Num}), {Dash}), {LBr, RBr}))

(***************************************************************************)
(* The regular expressions of extract_answer.  A labelled pattern is       *)
(*   [open][label][close][:]\s*[body]                                      *)
(* open and close say whether "**" is required ("bold"), optional ("opt")  *)
(* or absent ("plain"); the body is a bracketed group \[([^\]]+)\], the    *)
(* rest of the line ([^\n]+) or the rest of the line up to a fullwidth     *)
(* parenthesis.  UpperStar in a label stands for [A-Z]*.                   *)
(***************************************************************************)
UpperStar == "<[A-Z]*>"

NoMatch == [ok |-> FALSE, group |-> <<>>]
Matched(g) == [ok |-> TRUE, group |-> g]

RECURSIVE SkipUpper(_, _)
SkipUpper(s, i) == IF i <= Len(s) /\ IsUpperTok(s[i]) THEN SkipUpper(s, i + 1) ELSE i

\* the index after the label matched at i, 0 if it does not match there
RECURSIVE LabelEnd(_, _, _, _)
LabelEnd(s, i, label, k) ==
    IF k > Len(label) THEN i
    ELSE IF label[k] = UpperStar THEN LabelEnd(s, SkipUpper(s, i), label, k + 1)
    ELSE IF i <= Len(s) /\ s[i] = label[k] THEN LabelEnd(s, i + 1, label, k + 1)
    ELSE 0

\* \s*\[([^\]]+)\] from index j on
BracketBody(s, j) ==
    LET w == SkipWs(s, j)
        r == FindTok(s, w + 1, {RBr})
    IN IF w <= Len(s) /\ s[w] = LBr /\ r <= Len(s) /\ r > w + 1
       THEN Matched(SubSeq(s, w + 1, r - 1))
       ELSE NoMatch

\* \s*([^...]+) from index j on, the class excluding the tokens of stop; when
\* the whitespace is followed by a stop token or by the end of the text, \s*
\* gives back a blank for the group
LineBody(s, j, stop) ==
    LET w == SkipWs(s, j)
    IN IF w <= Len(s) /\ s[w] \notin stop
       THEN Matched(SubSeq(s, w, FindTok(s, w, stop) - 1))
       ELSE IF \E p \in j..(w - 1) : s[p] = Sp THEN Matched(<<Sp>>)
       ELSE NoMatch

Body(s, j, body) ==
    CASE body = "bracket" -> BracketBody(s, j)
      [] body = "line" -> LineBody(s, j, {Nl})
      [] body = "linenoparen" -> LineBody(s, j, {Nl, FwParen})

\* the labelled pattern p matched at index i
LabelledAt(s, i, p) ==
    LET a == IF p.open = "bold" THEN (IF s[i] = Bold THEN i + 1 ELSE 0) ELSE i
        b == IF a = 0 THEN 0 ELSE LabelEnd(s, a, p.label, 1)
        c == IF b = 0 THEN 0
             ELSE IF p.close = "plain" THEN b
             ELSE IF b <= Len(s) /\ s[b] = Bold THEN b + 1
             ELSE IF p.close = "opt" THEN b
             ELSE 0
    IN IF c # 0 /\ c <= Len(s) /\ s[c] = Colon THEN Body(s, c + 1, p.body)
       ELSE NoMatch

\* <final>.*?<fp>.*?<list>[:]\s*\[([^\]]+)\] matched at index i; the dot
\* crosses a newline only under re.DOTALL
LazyAt(s, i, dotall) ==
    LET a == FindTok(s, i + 1, {Fp})
        ok(b) == /\ s[b] = ListW
                 /\ b < Len(s) /\ s[b + 1] = Colon
                 /\ BracketBody(s, b + 2).ok
                 /\ dotall \/ ~HasTok(SubSeq(s, i, b), {Nl})
        bs == {b \in (a + 1)..Len(s) : ok(b)}
    IN IF s[i] = Final /\ a <= Len(s) /\ bs # {}
       THEN BracketBody(s, MinOf(bs) + 2)
       ELSE NoMatch

PatternAt(s, i, p, dotall) ==
    IF p.body = "lazy" THEN LazyAt(s, i, dotall) ELSE LabelledAt(s, i, p)

\* re.search(p, s): the match at the leftmost index that has one
Search(s, p, dotall) ==
    LET at == {i \in 1..Len(s) : PatternAt(s, i, p, dotall).ok}
    IN IF at = {} THEN NoMatch ELSE PatternAt(s, MinOf(at), p, dotall)

Pat(open, label, close, body) ==
    [open |-> open, label |-> label, close |-> close, body |-> body]

EifLabel == <<Eif, Fp, ListW>>
FinalEifLabel == <<Final, Eif, Fp, ListW>>
ImprovedEifLabel == <<Improved, Eif, Fp, ListW>>
ViewEifLabel == <<View, Eif, Fp>>

\* eif_selection: final_patterns of the long-text handling
EifFinalPatterns == <<
    Pat("bold", FinalEifLabel, "bold", "bracket"),
    Pat("bold", FinalEifLabel, "bold", "line"),
    Pat("plain", FinalEifLabel, "plain", "bracket"),
    Pat("plain", FinalEifLabel, "plain", "line"),
    Pat("plain", <<Final>>, "plain", "lazy"),
    Pat("opt", EifLabel, "opt", "bracket"),
    Pat("plain", EifLabel, "plain", "line") >>

\* eif_selection: patterns
EifPatterns == <<
    Pat("plain", FinalEifLabel, "plain", "bracket"),
    Pat("plain", FinalEifLabel, "plain", "linenoparen"),
    Pat("plain", ImprovedEifLabel, "plain", "bracket"),
    Pat("plain", ImprovedEifLabel, "plain", "linenoparen"),
    Pat("plain", ViewEifLabel, "plain", "bracket"),
    Pat("plain", ViewEifLabel, "plain", "linenoparen"),
    Pat("opt", EifLabel, "opt", "bracket"),
    Pat("plain", EifLabel, "plain", "bracket"),
    Pat("plain", EifLabel, "plain", "linenoparen"),
    Pat("plain", <<Fp, AsFollows>>, "plain", "line"),
    Pat("plain", <<Fp>>, "plain", "linenoparen") >>

AnyLabel == <<UpperStar, Fp, ListW>>
FinalAnyLabel == <<Final, UpperStar, Fp, ListW>>

\* transaction_selection_inference: final_patterns, used by both handlings
TsiFinalPatterns == <<
    Pat("bold", FinalAnyLabel, "bold", "bracket"),
    Pat("bold", FinalAnyLabel, "bold", "line"),
    Pat("plain", FinalAnyLabel, "plain", "bracket"),
    Pat("plain", FinalAnyLabel, "plain", "line"),
    Pat("plain", <<Final>>, "plain", "lazy"),
    Pat("opt", AnyLabel, "opt", "bracket"),
    Pat("plain", AnyLabel, "plain", "line"),
    Pat("plain", AnyLabel, "plain", "bracket") >>

(***************************************************************************)
(* The handlers of extract_answer.  A handler yields a record: returned    *)
(* says whether extract_answer returns from it, result is the list it      *)
(* returns and answer the answer text it examined last.                    *)
(***************************************************************************)
NoReturn == [returned |-> FALSE, result |-> <<>>, answer |-> <<>>]
Return(result, answer) == [returned |-> TRUE, result |-> result, answer |-> answer]

\* ["<wu>", "<wu><.>", "None", "none"]
Sentinels == {<<Wu>>, <<Wu, Period>>, <<NoneCap>>, <<NoneLow>>}

RECURSIVE CleanItems(_)
CleanItems(items) ==
    IF items = <<>> THEN <<>>
    ELSE <<clean_eif_name(StripToks(Head(items)))>> \o CleanItems(Tail(items))

\* [item for item in eif_list if item and lo < len(item) < cap]
Plausible(items, lo, cap) ==
    LET keep(item) == item # <<>> /\ lo < TextLen(item) /\ TextLen(item) < cap
    IN SelectSeq(items, keep)

\* [item for item in eif_list if item]
NonEmpty(items) ==
    LET keep(item) == item # <<>>
    IN SelectSeq(items, keep)

\* the cap on the length of a name
EifCap == 50
TsiCap == 80
Cap(parser) == IF parser = "eif" THEN EifCap ELSE TsiCap

FinalPatterns(parser) == IF parser = "eif" THEN EifFinalPatterns ELSE TsiFinalPatterns

\* for pattern in final_patterns, from the k-th on, under re.DOTALL
RECURSIVE ConclusionFrom(_, _, _)
ConclusionFrom(parser, text, k) ==
    IF k > Len(FinalPatterns(parser)) THEN NoReturn
    ELSE LET match == Search(text, FinalPatterns(parser)[k], TRUE)
             eif_text == StripToks(match.group)
             eif_list == Plausible(CleanItems(SplitOn(eif_text, Separators)),
                                   -1, Cap(parser))
         IN IF match.ok /\ eif_text \in Sentinels THEN Return(<<>>, eif_text)
            ELSE IF match.ok /\ eif_list # <<>> THEN Return(eif_list, eif_text)
            ELSE ConclusionFrom(parser, text, k + 1)

\* text[-500:], whole tokens
RECURSIVE TextTail(_)
TextTail(s) == IF TextLen(s) <= LongText THEN s ELSE TextTail(Tail(s))

\* \[([A-Z][A-Z_,\s]+)\](?!.*\[): the lookahead leaves the last "[" only
TailSearch(s) ==
    LET opens == {i \in 1..Len(s) : s[i] = LBr}
        q == CHOOSE i \in opens : \A j \in opens : j <= i
        r == FindTok(s, q + 1, {RBr})
    IN IF /\ opens # {}
          /\ r <= Len(s) /\ r > q + 1
          /\ IsUpperTok(s[q + 1])
          /\ \A i \in (q + 2)..(r - 1) : IsUpperTok(s[i]) \/ IsWs(s[i]) \/ s[i] = Comma
       THEN Matched(SubSeq(s, q + 1, r - 1))
       ELSE NoMatch

TailList(text) ==
    LET match == TailSearch(TextTail(text))
        eif_text == StripToks(match.group)
        eif_list == Plausible(CleanItems(SplitOn(eif_text, {Comma})), -1, EifCap)
    IN IF match.ok /\ eif_list # <<>> THEN Return(eif_list, eif_text) ELSE NoReturn

\* patterns of the short handling
Patterns(parser) == IF parser = "eif" THEN EifPatterns ELSE TsiFinalPatterns

\* for pattern in patterns, from the k-th on
RECURSIVE PatternsFrom(_, _, _)
PatternsFrom(parser, text, k) ==
    IF k > Len(Patterns(parser)) THEN NoReturn
    ELSE LET match == Search(text, Patterns(parser)[k], FALSE)
             answer_text == StripToks(match.group)
             parts == SplitOn(answer_text, Separators)
             cleaned == CleanItems(NonEmpty([i \in 1..Len(parts) |->
                                               StripToks(parts[i])]))
             \* only eif_selection drops the names that cleaning left empty
             eif_list == IF parser = "eif" THEN NonEmpty(cleaned) ELSE cleaned
         IN IF match.ok /\ answer_text \in Sentinels THEN Return(<<>>, answer_text)
            ELSE IF match.ok /\ answer_text \notin {<<>>, <<Bold>>} /\ eif_list # <<>>
                 THEN Return(eif_list, answer_text)
            ELSE PatternsFrom(parser, text, k + 1)

\* one item \d+\.\s*\*\*[^\*]+\*\*[^\n]*\n? at index d: the index after it,
\* 0 if there is no item at d
ItemEnd(s, d) ==
    LET w == SkipWs(s, d + 1)
        c == FindTok(s, w + 1, {Bold})
        e == FindTok(s, c + 1, {Nl})
    IN IF /\ d <= Len(s) /\ s[d] = Num
          /\ w <= Len(s) /\ s[w] = Bold
          /\ c <= Len(s) /\ c > w + 1
       THEN (IF e <= Len(s) THEN e + 1 ELSE e)
       ELSE 0

\* (?:item)+ from index d on: the index after the last item
RECURSIVE ItemsEnd(_, _)
ItemsEnd(s, d) == IF ItemEnd(s, d) = 0 THEN d ELSE ItemsEnd(s, ItemEnd(s, d))

\* EIF<fp><list>[:]\s*\*?\*?\s*\n((?:item)+) matched at index i
NumberedTitleAt(s, i) ==
    LET c == LabelEnd(s, i, EifLabel, 1)
        d == FindTok(s, c + 1, {t \in Range(s) : ~IsWs(t) /\ t # Bold})
        gap == SubSeq(s, c + 1, d - 1)
    IN IF /\ c # 0 /\ c <= Len(s) /\ s[c] = Colon
          /\ gap # <<>> /\ gap[Len(gap)] = Nl
          /\ Cardinality({j \in 1..Len(gap) : gap[j] = Bold}) <= 1
          /\ ItemEnd(s, d) # 0
       THEN Matched(SubSeq(s, d, ItemsEnd(s, d) - 1))
       ELSE NoMatch

\* \d+\.\s*\*\*([A-Z][A-Za-z_\s]+)\*\* matched at index i, followed by
\* \s*[-] when dash is set: the group and the index after the match
BoldNameAt(s, i, dash) ==
    LET w == SkipWs(s, i + 1)
        c == FindTok(s, w + 1, {Bold})
        z == SkipWs(s, c + 1)
    IN IF /\ s[i] = Num
          /\ w <= Len(s) /\ s[w] = Bold
          /\ c <= Len(s) /\ c > w + 1
          /\ IsCapTok(s[w + 1])
          /\ \A j \in (w + 2)..(c - 1) : IsLetterTok(s[j]) \/ IsWs(s[j])
          /\ dash => (z <= Len(s) /\ s[z] = Dash)
       THEN [ok |-> TRUE, group |-> SubSeq(s, w + 1, c - 1),
             end |-> IF dash THEN z + 1 ELSE c + 1]
       ELSE [ok |-> FALSE, group |-> <<>>, end |-> i + 1]

\* re.findall of the bold name from index i on
RECURSIVE FindBoldNames(_, _, _)
FindBoldNames(s, i, dash) ==
    IF i > Len(s) THEN <<>>
    ELSE LET m == BoldNameAt(s, i, dash)
         IN (IF m.ok THEN <<m.group>> ELSE <<>>) \o FindBoldNames(s, m.end, dash)

\* the numbered list under the title "EIF<fp><list>:"
NumberedAfterTitle(text) ==
    LET at == {i \in 1..Len(text) : NumberedTitleAt(text, i).ok}
        list_section == NumberedTitleAt(text, MinOf(at)).group
        matches == FindBoldNames(list_section, 1, FALSE)
        eif_list == Plausible(CleanItems(matches), 2, EifCap)
    IN IF at # {} /\ eif_list # <<>> THEN Return(eif_list, list_section)
       ELSE NoReturn

\* re.sub(r'<head>.*?<asfollows>[:]?\s*', '', s)
RECURSIVE SubAsFollows(_, _)
SubAsFollows(s, head) ==
    LET i == FindTok(s, 1, {head})
        a == FindTok(s, i + 1, {AsFollows, Nl})
        c == IF a < Len(s) /\ s[a + 1] = Colon THEN a + 2 ELSE a + 1
    IN IF i > Len(s) THEN s
       ELSE IF a <= Len(s) /\ s[a] = AsFollows
            THEN SubSeq(s, 1, i - 1) \o SubAsFollows(SubSeq(s, SkipWs(s, c), Len(s)), head)
            ELSE SubSeq(s, 1, i) \o SubAsFollows(SubSeq(s, i + 1, Len(s)), head)

cleaned_text(text) ==
    StripToks(SubAsFollows(SubAsFollows(text, According), Identified))

\* cleaned_text.lower() in ["<wu>", "none", ""]
WholeTextSentinels == {<<Wu>>, <<NoneCap>>, <<NoneLow>>, <<>>}

\* the whole text as a delimited list, or as a single name
WholeText(text) ==
    LET c == cleaned_text(text)
        parts == SplitOn(c, Separators)
        eif_list == Plausible(CleanItems(NonEmpty(
                        [i \in 1..Len(parts) |-> StripToks(parts[i])])), -1, EifCap)
        eif_name == clean_eif_name(c)
    IN IF c \in WholeTextSentinels THEN Return(<<>>, c)
       ELSE IF HasTok(c, {Comma, FwComma}) /\ eif_list # <<>> THEN Return(eif_list, c)
       ELSE IF TextLen(c) < EifCap /\ TextLen(c) > 0 /\ eif_name # <<>>
            THEN Return(<<eif_name>>, c)
       ELSE NoReturn

\* the numbered list of bold names anywhere in the text
BoldList(parser, text) ==
    LET matches == FindBoldNames(text, 1, parser = "eif")
        named == Plausible(CleanItems(matches), 2, Cap(parser))
        meta == IF parser = "eif" THEN {ListW, Fp} ELSE {ListW}
        keep(item) == ~HasTok(item, meta)
        eif_list == SelectSeq(named, keep)
    IN IF eif_list # <<>> THEN Return(eif_list, <<>>) ELSE NoReturn

\* \d+\.\s*([A-Z][A-Z_\s]+?)(?:\s*[-]|\s*\n|$) with the group ending at index k
RECURSIVE PlainNameEnd(_, _)
PlainNameEnd(s, k) ==
    LET r == SkipWs(s, k + 1)
    IN IF \/ r <= Len(s) /\ s[r] = Dash
          \/ \E j \in (k + 1)..(r - 1) : s[j] = Nl
          \/ k = Len(s)
       THEN k
       ELSE IF IsUpperTok(s[k + 1]) \/ IsWs(s[k + 1]) THEN PlainNameEnd(s, k + 1)
       ELSE 0

RECURSIVE FindPlainNames(_, _)
FindPlainNames(s, i) ==
    IF i > Len(s) THEN <<>>
    ELSE LET w == SkipWs(s, i + 1)
             k == IF s[i] = Num /\ w <= Len(s) /\ IsUpperTok(s[w])
                  THEN PlainNameEnd(s, w) ELSE 0
         IN IF k = 0 THEN FindPlainNames(s, i + 1)
            ELSE <<SubSeq(s, w, k)>> \o FindPlainNames(s, k + 1)

\* EIF<fp><list>[:](.*?)(?=\n\n|\Z) matched at index i
SectionAt(s, i) ==
    LET c == LabelEnd(s, i, EifLabel, 1)
        ends == {j \in (c + 1)..(Len(s) - 1) : s[j] = Nl /\ s[j + 1] = Nl}
        e == IF ends = {} THEN Len(s) ELSE MinOf(ends) - 1
    IN IF c # 0 /\ c <= Len(s) /\ s[c] = Colon
       THEN Matched(SubSeq(s, c + 1, e))
       ELSE NoMatch

\* the numbered list of plain names in the section under "EIF<fp><list>:"
SectionList(text) ==
    LET at == {i \in 1..Len(text) : SectionAt(text, i).ok}
        section_text == SectionAt(text, MinOf(at)).group
        matches == FindPlainNames(section_text, 1)
        eif_list == Plausible(CleanItems(matches), 0, EifCap)
    IN IF at # {} /\ eif_list # <<>> THEN Return(eif_list, section_text)
       ELSE NoReturn

(***************************************************************************)
(* One call of extract_answer                                              *)
(***************************************************************************)
\* the most names in a bracketed list
MaxListItems == 3
\* the most pieces of a free text
MaxPieces == 3

PlainNames3 == {<<Job>>, <<Emp>>, <<Job, Sp, Emp>>}

RECURSIVE NameListsOfLen(_)
NameListsOfLen(n) ==
    IF n = 0 THEN {<<>>}
    ELSE {Append(l, name) : l \in NameListsOfLen(n - 1), name \in PlainNames3}

NameLists == UNION {NameListsOfLen(n) : n \in 1..MaxListItems}

\* "n1, n2, ..., nk"
RECURSIVE JoinNames(_)
JoinNames(names) ==
    IF Len(names) = 1 THEN names[1]
    ELSE names[1] \o <<Comma, Sp>> \o JoinNames(Tail(names))

Bracketed(names) == <<LBr>> \o JoinNames(names) \o <<RBr>>

\* the labels the prompts of each program ask the answer to end with
Labels(parser) ==
    {EifLabel, FinalEifLabel, ImprovedEifLabel,
     <<Bold>> \o EifLabel \o <<Bold>>, <<Bold>> \o FinalEifLabel \o <<Bold>>}
    \cup (IF parser = "eif" THEN {ViewEifLabel} ELSE {})

\* what precedes the final line: nothing, or an analysis without a labelled list
Analyses == {
    <<>>,
    <<Prose, Nl>>,
    <<Prose, LBr, Prose, RBr, Nl, Nl>>,
    <<Pad, Nl>>,
    <<Pad, LBr, Job, RBr, Nl>>,
    <<Pad, Nl, Num, Sp, Bold, Emp, Bold, Sp, Dash, Sp, Prose, Nl, Nl>>,
    <<Final, Prose, Fp, Prose, ListW, Nl, Pad, Nl>> }

FinalLine(label, gap, answer) == label \o <<Colon>> \o gap \o answer

LabelledTexts(parser) ==
    {pre \o FinalLine(label, gap, Bracketed(names)) :
        pre \in Analyses, label \in Labels(parser), gap \in {<<>>, <<Sp>>},
        names \in NameLists}

SentinelTexts(parser) ==
    {pre \o FinalLine(label, <<Sp>>, answer) :
        pre \in Analyses, label \in Labels(parser),
        answer \in Sentinels \cup {<<LBr>> \o x \o <<RBr>> : x \in Sentinels}}
    \cup {lead \o x : lead \in {<<>>, <<According, Prose, AsFollows, Colon, Nl>>},
                      x \in Sentinels}

\* a long analysis that states a labelled list as scratch reasoning and ends
\* with the same label and the final list
Restated(label, scratch, final) ==
    FinalLine(label, <<Sp>>, Bracketed(scratch)) \o <<Nl, Pad, Nl>>
        \o FinalLine(label, <<Sp>>, Bracketed(final))

RestatedLists == NameListsOfLen(1) \cup NameListsOfLen(2)

RestatedTexts(parser) ==
    {Restated(label, q[1], q[2]) :
        label \in Labels(parser),
        q \in {r \in RestatedLists \X RestatedLists : r[1] # r[2]}}

\* a heading "EIF<fp><list>:", plain or bold, followed by a numbered list
\* "1. **name** - description", one item to a line
NumberedItem(name) == <<Num, Sp, Bold>> \o name \o <<Bold, Sp, Dash, Sp, Prose, Nl>>

RECURSIVE NumberedItems(_)
NumberedItems(names) ==
    IF names = <<>> THEN <<>> ELSE NumberedItem(Head(names)) \o NumberedItems(Tail(names))

NumberedTexts ==
    {pre \o heading \o NumberedItems(names) :
        pre \in {<<>>, <<Prose, Nl>>, <<Pad, Nl>>},
        heading \in {EifLabel \o <<Colon, Nl>>, <<Bold>> \o EifLabel \o <<Colon, Bold, Nl>>},
        names \in RestatedLists}

Pieces == {
    <<Eif, Fp, ListW, Colon>>, <<Bold>>, <<LBr>>, <<RBr>>, <<Job>>, <<Comma>>,
    <<Sp>>, <<Nl>>, <<Wu>>, <<Num>>, <<Dash>>, <<Pad>>, <<Longname>> }

RECURSIVE FreeTextsOfLen(_)
FreeTextsOfLen(n) ==
    IF n = 0 THEN {<<>>}
    ELSE {t \o p : t \in FreeTextsOfLen(n - 1), p \in Pieces}

FreeTexts == UNION {FreeTextsOfLen(n) : n \in 0..MaxPieces}

\* the argument: a string, or None
Texts(parser) ==
    {None} \cup FreeTexts \cup LabelledTexts(parser) \cup SentinelTexts(parser)
        \cup RestatedTexts(parser) \cup NumberedTexts

\* mutant of TextMissing: None is let through to text.strip()
TextEmpty(text) == text = <<>>

\* if not text
TextMissing(text) == text = None \/ text = <<>>

\* where extract_answer goes on after a handler that did not return
AfterHandler(parser, stage) ==
    CASE stage = "conclusion" -> IF parser = "eif" THEN "tail" ELSE "patterns"
      [] stage = "tail" -> "numbered_title"
      [] stage = "numbered_title" -> "patterns"
      [] stage = "patterns" -> IF parser = "eif" THEN "whole_text" ELSE "bold_list"
      [] stage = "whole_text" -> "bold_list"
      [] stage = "bold_list" -> IF parser = "eif" THEN "section_list" ELSE "done"
      [] stage = "section_list" -> "done"

\* the handler at stage yields r
Handle(stage, r) ==
    /\ e_trace' = Append(e_trace, stage)
    /\ IF r.returned
       THEN /\ e_pc' = "done"
            /\ e_result' = r.result
            /\ e_stage' = stage
            /\ e_answer' = r.answer
       ELSE /\ e_pc' = AfterHandler(e_parser, stage)
            /\ UNCHANGED <<e_result, e_stage, e_answer>>
    /\ UNCHANGED <<e_parser, e_input, e_text>>
    /\ UNCHANGED <<scoreVars, normVars, oracleVars, hostVars>>

\* if not text: return []; text = text.strip(); if len(text) > 500: ...
ExStart ==
    /\ e_pc = "start"
    /\ e_trace' = Append(e_trace, "start")
    /\ IF TextMissing(e_text)
       THEN /\ e_pc' = "done"
            /\ e_stage' = "missing"
            /\ UNCHANGED e_text
       ELSE IF e_text = None
       THEN \* None has no strip()
            /\ e_pc' = "raised"
            /\ UNCHANGED <<e_stage, e_text>>
       ELSE /\ e_text' = StripToks(e_text)
            /\ e_pc' = IF TextLen(StripToks(e_text)) > LongText THEN "conclusion"
                       ELSE IF e_parser = "eif" THEN "numbered_title"
                       ELSE "patterns"
            /\ UNCHANGED e_stage
    /\ UNCHANGED <<e_parser, e_input, e_result, e_answer>>
    /\ UNCHANGED <<scoreVars, normVars, oracleVars, hostVars>>

ExConclusion ==
    /\ e_pc = "conclusion"
    /\ Handle("conclusion", ConclusionFrom(e_parser, e_text, 1))

ExTail ==
    /\ e_pc = "tail"
    /\ Handle("tail", TailList(e_text))

ExNumberedTitle ==
    /\ e_pc = "numbered_title"
    /\ Handle("numbered_title", NumberedAfterTitle(e_text))

ExPatterns ==
    /\ e_pc = "patterns"
    /\ Handle("patterns", PatternsFrom(e_parser, e_text, 1))

ExWholeText ==
    /\ e_pc = "whole_text"
    /\ Handle("whole_text", WholeText(e_text))

ExBoldList ==
    /\ e_pc = "bold_list"
    /\ Handle("bold_list", BoldList(e_parser, e_text))

ExSectionList ==
    /\ e_pc = "section_list"
    /\ Handle("section_list", SectionList(e_text))

InitExtract ==
    /\ e_pc = "start"
    /\ e_parser \in {"eif", "tsi"}
    /\ e_input \in Texts(e_parser)
    /\ e_text = e_input
    /\ e_result = <<>>
    /\ e_stage = "none"
    /\ e_answer = <<>>
    /\ e_trace = <<>>
    /\ ScoreIdle /\ NormIdle /\ OracleIdle /\ HostIdle

NextExtract ==
    \/ ExStart
    \/ ExConclusion
    \/ ExTail
    \/ ExNumberedTitle
    \/ ExPatterns
    \/ ExWholeText
    \/ ExBoldList
    \/ ExSectionList

SpecExtract == InitExtract /\ [][NextExtract]_vars

Init ==
    /\ fn \in {"eif", "sem"}
    /\ \E lp \in ListPairs : predicted = lp[1] /\ ground_truth = lp[2]
    /\ lm \in BOOLEAN /\ use_lm_semantic \in BOOLEAN
    /\ similarity_threshold \in (IF fn = "eif" THEN {EifThreshold} ELSE SemThresholds)
    /\ pc = "start" /\ exact_matches = (IF fn = "eif" THEN 0 ELSE {})
    /\ unmatched_pred = <<>> /\ unmatched_truth = <<>> /\ pi = 0 /\ ti = 0
    /\ max_similarity = RZero /\ best_match = None /\ best_match_orig = None
    /\ fuzzy_score = RZero /\ matched_truth = {} /\ match_details = <<>>
    /\ oracle_calls = <<>> /\ report = NoReport
    /\ NormIdle /\ OracleIdle /\ ExtractIdle /\ HostIdle

Next ==
    \/ ScoreStart
    \/ SkipClaimed
    \/ CompareLexical
    \/ CompareSemantic
    \/ Decide
    \/ Finish

Spec == Init /\ [][Next]_vars

\* calculate_eif_similarity with an LM, every call of which may answer, fail
\* or never return; the interpreter keeps running the call while it can
InitHang == Init /\ fn = "eif" /\ lm /\ use_lm_semantic

NextHang ==
    \/ ScoreStart
    \/ SkipClaimed
    \/ CompareSemantic
    \/ OracleHangs
    \/ Decide
    \/ Finish

SpecHang == InitHang /\ [][NextHang]_vars /\ WF_vars(NextHang)

\* calculate_eif_similarity with the lexical oracle on names whose token sets
\* overlap in part, so that the similarity of a pair is a graded function of
\* the pair: "a b c d", "a b c d e", "a b c", "a b c d e f"
GreedyPool ==
    { <<"a", " ", "b", " ", "c", " ", "d">>,
      <<"a", " ", "b", " ", "c", " ", "d", " ", "e">>,
      <<"a", " ", "b", " ", "c">>,
      <<"a", " ", "b", " ", "c", " ", "d", " ", "e", " ", "f">> }

RECURSIVE GreedyListsOfLen(_)
GreedyListsOfLen(n) ==
    IF n = 0 THEN {<<>>}
    ELSE {Append(l, x) : l \in GreedyListsOfLen(n - 1), x \in GreedyPool}

GreedyListPairs ==
    UNION {GreedyListsOfLen(q[1]) \X GreedyListsOfLen(q[2]) :
              q \in {r \in (0..MaxItems) \X (0..MaxItems) : r[1] + r[2] <= MaxItems}}

InitGreedy ==
    /\ fn = "eif"
    /\ \E lp \in GreedyListPairs : predicted = lp[1] /\ ground_truth = lp[2]
    /\ lm = FALSE /\ use_lm_semantic = TRUE
    /\ similarity_threshold = EifThreshold
    /\ pc = "start" /\ exact_matches = 0
    /\ unmatched_pred = <<>> /\ unmatched_truth = <<>> /\ pi = 0 /\ ti = 0
    /\ max_similarity = RZero /\ best_match = None /\ best_match_orig = None
    /\ fuzzy_score = RZero /\ matched_truth = {} /\ match_details = <<>>
    /\ oracle_calls = <<>> /\ report = NoReport
    /\ NormIdle /\ OracleIdle /\ ExtractIdle /\ HostIdle

NextGreedy ==
    \/ ScoreStart
    \/ SkipClaimed
    \/ CompareLexical
    \/ Decide
    \/ Finish

SpecGreedy == InitGreedy /\ [][NextGreedy]_vars

(***************************************************************************)
(* run: every method is executed for every selected sample while budget    *)
(* is left.  Costs and budgets are counted in whole units.  The controller *)
(* that executes a graph of operations is not part of the sources; one     *)
(* execution is modelled by its two observable outcomes: whether           *)
(* executor.run() raised and the value of lm.cost afterwards, lm being the *)
(* instance created for this execution.                                    *)
(***************************************************************************)
MaxData == 2

MaxMethods == 2

MaxBudget == 3

MaxCost == 2

\* a run that leaves the budget alone when executor.run() raised
BudgetAfterUnlessRaised(budget, cost, raised) == IF raised THEN budget ELSE budget - cost

\* budget -= lm.cost, executed after the try statement whether or not
\* executor.run() raised
BudgetAfter(budget, cost, raised) == budget - cost

RunReturn ==
    /\ r_pc' = "done"
    /\ r_result' = r_orig - r_budget
    /\ UNCHANGED <<r_ndata, r_nmethods, r_orig, r_budget, r_data, r_method,
                   r_count, r_spent, r_last>>
    /\ UNCHANGED <<scoreVars, normVars, oracleVars, extractVars, configVars, degVars>>

\* for data in selected_data: if budget <= 0.0: break
RunData ==
    /\ r_pc = "data"
    /\ IF r_data > r_ndata \/ r_budget <= 0
       THEN RunReturn
       ELSE /\ r_pc' = "method"
            /\ r_method' = 1
            /\ UNCHANGED <<r_ndata, r_nmethods, r_orig, r_budget, r_data,
                           r_count, r_spent, r_last, r_result>>
            /\ UNCHANGED <<scoreVars, normVars, oracleVars, extractVars, configVars, degVars>>

\* for method in methods: if budget <= 0.0: break
RunMethodSkip ==
    /\ r_pc = "method"
    /\ r_method > r_nmethods \/ r_budget <= 0
    /\ r_pc' = "data"
    /\ r_data' = r_data + 1
    /\ UNCHANGED <<r_ndata, r_nmethods, r_orig, r_budget, r_method,
                   r_count, r_spent, r_last, r_result>>
    /\ UNCHANGED <<scoreVars, normVars, oracleVars, extractVars, configVars, degVars>>

\* one execution: a new lm, set_scoring_lm(lm, use_semantic=True),
\* executor.run() inside try/except Exception, budget -= lm.cost
RunMethod ==
    /\ r_pc = "method"
    /\ r_method <= r_nmethods
    /\ r_budget > 0
    /\ \E cost \in 0..MaxCost, raised \in BOOLEAN :
          /\ r_last' = [budget_before |-> r_budget, cost |-> cost, raised |-> raised]
          /\ r_count' = r_count + 1
          /\ r_spent' = r_spent + cost
          /\ r_budget' = BudgetAfter(r_budget, cost, raised)
    /\ g_lm' = "A"
    /\ g_use' = TRUE
    /\ installed' = installed \cup {<<"A", TRUE>>}
    /\ r_method' = r_method + 1
    /\ UNCHANGED <<r_pc, r_ndata, r_nmethods, r_orig, r_data, r_result>>
    /\ UNCHANGED <<s_pc, s_lm, s_use, s_done, c_pc, c_lm, c_seen>>
    /\ UNCHANGED <<scoreVars, normVars, oracleVars, extractVars, degVars>>

InitRun ==
    /\ ScoreIdle /\ NormIdle /\ OracleIdle /\ ExtractIdle /\ ConfigIdle /\ DegIdle
    /\ r_pc = "data"
    /\ r_ndata \in 0..MaxData
    /\ r_nmethods \in 0..MaxMethods
    /\ r_orig \in 0..MaxBudget
    /\ r_budget = r_orig
    /\ r_data = 1 /\ r_method = 0 /\ r_count = 0 /\ r_spent = 0
    /\ r_last = NoExecution /\ r_result = 0

NextRun == RunData \/ RunMethodSkip \/ RunMethod

SpecRun == InitRun /\ [][NextRun]_vars

(***************************************************************************)
(* The scoring configuration of eif_selection: two module globals written  *)
(* by set_scoring_lm and read by score_assessment and test_eif_assessment. *)
(* One thread calls set_scoring_lm up to MaxSets times, another thread     *)
(* makes one scoring call.  Neither function takes a lock, so a step of    *)
(* one thread may fall between any two statements of the other.  An lm is  *)
(* "None" or the name of an instance.                                      *)
(***************************************************************************)
MaxSets == 2

LmValues == {"None", "A"}

ConfigListPairs ==
    { <<p, t>> :
        p \in { << <<"b", " ", "a">> >>, << <<"b", " ", "a">>, <<"c">> >> },
        t \in { << <<"A", " ", "b", " ", "(", "c", ")">> >>,
                << <<"A", " ", "b", " ", "(", "c", ")">>, <<"a", " ", "c">> >> } }

\* a call set_scoring_lm(l, u) is entered
SetCall ==
    /\ s_pc = "idle"
    /\ s_done < MaxSets
    /\ \E l \in LmValues, u \in BOOLEAN :
          /\ s_lm' = l
          /\ s_use' = u
          /\ installed' = installed \cup {<<l, u>>}
    /\ s_pc' = "set_lm"
    /\ UNCHANGED <<g_lm, g_use, s_done, c_pc, c_lm, c_seen>>
    /\ UNCHANGED <<scoreVars, normVars, oracleVars, extractVars, runVars, degVars>>

\* _GLOBAL_LM_FOR_SCORING = lm
SetLm ==
    /\ s_pc = "set_lm"
    /\ g_lm' = s_lm
    /\ s_pc' = "set_use"
    /\ UNCHANGED <<g_use, s_lm, s_use, s_done, installed, c_pc, c_lm, c_seen>>
    /\ UNCHANGED <<scoreVars, normVars, oracleVars, extractVars, runVars, degVars>>

\* _USE_LLM_SEMANTIC = use_semantic, and the call returns
SetUse ==
    /\ s_pc = "set_use"
    /\ g_use' = s_use
    /\ s_pc' = "idle"
    /\ s_done' = s_done + 1
    /\ UNCHANGED <<g_lm, s_lm, s_use, installed, c_pc, c_lm, c_seen>>
    /\ UNCHANGED <<scoreVars, normVars, oracleVars, extractVars, runVars, degVars>>

\* score_assessment evaluates the argument lm=_GLOBAL_LM_FOR_SCORING
ScorerReadLm ==
    /\ c_pc = "call"
    /\ c_lm' = g_lm
    /\ lm' = (g_lm # "None")
    /\ c_seen' = IF s_pc = "idle" THEN s_done ELSE -1
    /\ c_pc' = "read_use"
    /\ UNCHANGED <<fn, predicted, ground_truth, use_lm_semantic, similarity_threshold,
                   pc, exact_matches, unmatched_pred, unmatched_truth, pi, ti,
                   max_similarity, best_match, best_match_orig, fuzzy_score,
                   matched_truth, match_details, oracle_calls, report>>
    /\ UNCHANGED <<g_lm, g_use, s_pc, s_lm, s_use, s_done, installed>>
    /\ UNCHANGED <<normVars, oracleVars, extractVars, runVars, degVars>>

\* score_assessment evaluates the argument use_lm_semantic=_USE_LLM_SEMANTIC
\* and calls calculate_eif_similarity
ScorerReadUse ==
    /\ c_pc = "read_use"
    /\ use_lm_semantic' = g_use
    /\ c_pc' = "scoring"
    /\ pc' = "start"
    /\ UNCHANGED <<fn, predicted, ground_truth, lm, similarity_threshold,
                   exact_matches, unmatched_pred, unmatched_truth, pi, ti,
                   max_similarity, best_match, best_match_orig, fuzzy_score,
                   matched_truth, match_details, oracle_calls, report>>
    /\ UNCHANGED <<g_lm, g_use, s_pc, s_lm, s_use, s_done, installed, c_lm, c_seen>>
    /\ UNCHANGED <<normVars, oracleVars, extractVars, runVars, degVars>>

InitConfig ==
    /\ fn = "eif"
    /\ \E lp \in ConfigListPairs : predicted = lp[1] /\ ground_truth = lp[2]
    /\ lm = FALSE /\ use_lm_semantic = FALSE
    /\ similarity_threshold = EifThreshold
    /\ pc = "idle" /\ exact_matches = 0
    /\ unmatched_pred = <<>> /\ unmatched_truth = <<>> /\ pi = 0 /\ ti = 0
    /\ max_similarity = RZero /\ best_match = None /\ best_match_orig = None
    /\ fuzzy_score = RZero /\ matched_truth = {} /\ match_details = <<>>
    /\ oracle_calls = <<>> /\ report = NoReport
    /\ NormIdle /\ OracleIdle /\ ExtractIdle /\ RunIdle /\ DegIdle
    /\ g_lm = "None" /\ g_use = FALSE
    /\ s_pc = "idle" /\ s_lm = "None" /\ s_use = FALSE /\ s_done = 0
    /\ installed = {<<"None", FALSE>>}
    /\ c_pc = "call" /\ c_lm = "None" /\ c_seen = 0

NextConfig ==
    \/ SetCall
    \/ SetLm
    \/ SetUse
    \/ ScorerReadLm
    \/ ScorerReadUse
    \/ ScoreStart
    \/ SkipClaimed
    \/ CompareLexical
    \/ CompareSemantic
    \/ Decide
    \/ Finish

SpecConfig == InitConfig /\ [][NextConfig]_vars

(***************************************************************************)
(* calculate_eif_similarity called twice on the same lists: first with     *)
(* semantic scoring enabled and an LM every call of which fails, then with *)
(* semantic scoring disabled.  d_report keeps the report of the first      *)
(* call.                                                                   *)
(***************************************************************************)
\* one pass of the inner loop of the first call: lm.query raises
CompareDegraded ==
    /\ d_pc = "degraded"
    /\ InInner
    /\ ~IsClaimed(unmatched_truth[ti][2], matched_truth)
    /\ use_lm_semantic /\ lm
    /\ CompareWith(LmRaise)

\* the first call has returned; the second call is made with
\* use_lm_semantic=False
Rescore ==
    /\ d_pc = "degraded"
    /\ pc = "done"
    /\ d_report' = report
    /\ d_pc' = "lexical"
    /\ use_lm_semantic' = FALSE
    /\ pc' = "start" /\ exact_matches' = 0
    /\ unmatched_pred' = <<>> /\ unmatched_truth' = <<>> /\ pi' = 0 /\ ti' = 0
    /\ max_similarity' = RZero /\ best_match' = None /\ best_match_orig' = None
    /\ fuzzy_score' = RZero /\ matched_truth' = {} /\ match_details' = <<>>
    /\ oracle_calls' = <<>> /\ report' = NoReport
    /\ UNCHANGED <<fn, predicted, ground_truth, lm, similarity_threshold>>
    /\ UNCHANGED <<normVars, oracleVars, extractVars, runVars, configVars>>

InitDegraded ==
    /\ fn = "eif"
    /\ \E lp \in ListPairs : predicted = lp[1] /\ ground_truth = lp[2]
    /\ lm = TRUE /\ use_lm_semantic = TRUE
    /\ similarity_threshold = EifThreshold
    /\ pc = "start" /\ exact_matches = 0
    /\ unmatched_pred = <<>> /\ unmatched_truth = <<>> /\ pi = 0 /\ ti = 0
    /\ max_similarity = RZero /\ best_match = None /\ best_match_orig = None
    /\ fuzzy_score = RZero /\ matched_truth = {} /\ match_details = <<>>
    /\ oracle_calls = <<>> /\ report = NoReport
    /\ NormIdle /\ OracleIdle /\ ExtractIdle /\ RunIdle /\ ConfigIdle
    /\ d_pc = "degraded" /\ d_report = <<>>

NextDegraded ==
    \/ ScoreStart
    \/ SkipClaimed
    \/ CompareDegraded
    \/ CompareLexical
    \/ Decide
    \/ Finish
    \/ Rescore

SpecDegraded == InitDegraded /\ [][NextDegraded]_vars

(***************************************************************************)
(* Claims about the scoring call (specification Spec)                      *)
(***************************************************************************)
Done == pc = "done"
Semantic == use_lm_semantic /\ lm
Matches == {match_details[k] : k \in 1..Len(match_details)}
Calls == {oracle_calls[k] : k \in 1..Len(oracle_calls)}
ReportExactCount ==
    IF fn = "eif" THEN report.exact_matches ELSE Cardinality(report.exact_matches)

\* C1: the report of either scoring function has precision, recall and f1_score
\* within [0,1], for all lists and all LM replies (clamped or replaced by the
\* lexical similarity).
C1_MetricsInUnitInterval ==
    Done => /\ InUnit(report.precision)
            /\ InUnit(report.recall)
            /\ InUnit(report.f1_score)

\* a call with an exact match and a fuzzy match whose score is an LM reply
\* clamped from above, so that precision reaches 1
C1_Witness ==
    /\ Done /\ Semantic
    /\ ReportExactCount >= 1
    /\ \E m \in Matches : m.score = ROne
    /\ report.precision = ROne

\* C2: at every point of a scoring call, no ground-truth item is claimed twice:
\* an exact-matched ground-truth item is never offered to the fuzzy stage, a
\* ground-truth item fuzzy-matched to one predicted item is neither offered nor
\* matched to a later one, and each predicted item is in at most one match.
C2_NoDoubleClaim ==
    /\ \A c \in Calls : normalize_eif_name(c.truth) \notin ExactNorms
                        /\ normalize_eif_name(c.pred) \notin ExactNorms
    /\ \A m \in Matches : normalize_eif_name(m.ground_truth) \notin ExactNorms
    /\ \A k1, k2 \in 1..Len(match_details) :
          k1 # k2 => /\ match_details[k1].ground_truth # match_details[k2].ground_truth
                     /\ match_details[k1].p # match_details[k2].p
    /\ \A m \in Matches : \A c \in Calls : c.p > m.p => c.truth # m.ground_truth
    /\ fn = "sem" =>
          \A e1, e2 \in exact_matches :
              (e1.ground_truth = e2.ground_truth \/ e1.predicted = e2.predicted) => e1 = e2

\* the first predicted item claimed the first ground-truth item, the second one
\* had to pass over it and claimed another
C2_Witness ==
    /\ Done /\ Len(match_details) = 2 /\ Len(unmatched_truth) = 2
    /\ match_details[1].ground_truth = unmatched_truth[1][2]
    /\ match_details[2].ground_truth = unmatched_truth[2][2]

\* C3: the acceptance test is strict in every scoring function: no accepted
\* fuzzy match has a similarity equal to (or below) the threshold.
C3_StrictEverywhere ==
    \A m \in Matches : RLt(similarity_threshold, m.score)

\* C4: when a list is empty the call makes no oracle call; both empty gives
\* precision = recall = f1 = 1 with no exact match and fuzzy_score 0, exactly
\* one empty gives precision = recall = f1 = 0.
C4_EmptyLists ==
    (Done /\ (predicted = <<>> \/ ground_truth = <<>>)) =>
        /\ oracle_calls = <<>>
        /\ LET v == IF predicted = <<>> /\ ground_truth = <<>> THEN ROne ELSE RZero
           IN  /\ report.precision = v /\ report.recall = v /\ report.f1_score = v
        /\ report.fuzzy_score = RZero
        /\ ReportExactCount = 0
        /\ report.matches = <<>>

C4_Witness ==
    Done /\ predicted = <<>> /\ Len(ground_truth) = 2 /\ Semantic

\* C5: in calculate_eif_similarity a predicted item whose normalised form is the
\* normalised form of a ground-truth item (as "A b (c)" is of "a b") is counted as
\* an exact match and is never passed to the similarity oracle.
C5_ExactNeverToOracle ==
    (fn = "eif" /\ pc \in {"loop", "done"}) =>
        \A i \in 1..Len(predicted) :
            (\E j \in 1..Len(ground_truth) :
                \/ normalize_eif_name(predicted[i]) = normalize_eif_name(ground_truth[j])
                \/ {predicted[i], ground_truth[j]} =
                       {<<"a", " ", "b">>, <<"A", " ", "b", " ", "(", "c", ")">>})
            => /\ exact_matches >= 1
               /\ \A c \in Calls : c.pred # predicted[i]
               /\ pc = "done" => ReportExactCount >= 1

\* "A b (c)" was predicted for "a b" next to a predicted item that went to the
\* oracle
C5_Witness ==
    /\ Done /\ fn = "eif"
    /\ predicted = << <<"A", " ", "b", " ", "(", "c", ")">>, <<"b", " ", "a">> >>
    /\ <<"a", " ", "b">> \in Range(ground_truth)
    /\ oracle_calls # <<>>

RECURSIVE SumScores(_)
SumScores(ms) == IF ms = <<>> THEN RZero ELSE RAdd(Head(ms).score, SumScores(Tail(ms)))

\* C13: for two non-empty lists the report of calculate_eif_similarity has
\* total = exact_matches + fuzzy_score, where fuzzy_score is the sum of the
\* similarities of the accepted fuzzy matches (not their number),
\* precision = total / len(predicted), recall = total / len(ground_truth) with
\* the full list lengths, and f1_score = 2*p*r/(p+r) when p+r > 0, else 0.
C13_ReportFormulas ==
    (Done /\ fn = "eif" /\ predicted # <<>> /\ ground_truth # <<>>) =>
        LET total == RAdd(RInt(report.exact_matches), report.fuzzy_score)
            p == report.precision
            r == report.recall
        IN  /\ report.exact_matches = Cardinality(ExactNorms)
            /\ report.fuzzy_score = SumScores(report.matches)
            /\ RMul(p, RInt(Len(predicted))) = total
            /\ RMul(r, RInt(Len(ground_truth))) = total
            /\ IF RLt(RZero, RAdd(p, r))
               THEN RMul(report.f1_score, RAdd(p, r)) = RMul(RInt(2), RMul(p, r))
               ELSE report.f1_score = RZero

\* one exact match and one fuzzy match accepted at 0.8 among two predicted
\* items: total is 1.8 and precision 0.9
C13_Witness ==
    /\ Done /\ fn = "eif" /\ Len(predicted) = 2 /\ Len(ground_truth) = 2
    /\ report.exact_matches = 1
    /\ Len(report.matches) = 1 /\ report.matches[1].score = <<4, 5>>
    /\ report.fuzzy_score = <<4, 5>>
    /\ report.precision = <<9, 10>>

\* C14: no step of a scoring call changes the caller's predicted or
\* ground-truth list (same items, same order), on the empty-list shortcut, in
\* the exact stage, in the fuzzy stage and when the oracle fails.
C14_ListsUnchanged ==
    [][predicted' = predicted /\ ground_truth' = ground_truth]_vars

\* a finished call that went through the exact stage and the fuzzy stage with
\* the semantic oracle, and still holds both lists in the order they were passed
C14_Witness ==
    /\ Done /\ Semantic
    /\ predicted = << <<"a", " ", "b">>, <<"b", " ", "a">> >>
    /\ ground_truth = << <<"{", "c", "}">>, <<"A", " ", "b", " ", "(", "c", ")">> >>
    /\ ReportExactCount = 1
    /\ Len(oracle_calls) = 1 /\ Len(match_details) = 0
    /\ Len(unmatched_pred) = 1 /\ Len(unmatched_truth) = 1

\* the inner loop over the ground-truth items has ended for predicted item pi
AtDecision == pc = "loop" /\ pi <= Len(unmatched_pred) /\ ti > Len(unmatched_truth)

\* C18: in calculate_eif_similarity, for all names (a ground-truth name whose
\* normalised form is empty included), when the highest similarity of a
\* predicted item over the unclaimed ground-truth items exceeds 0.7 the item
\* is accepted: fuzzy_score grows by that similarity and the ground-truth item
\* becomes claimed.
C18_AboveThresholdAccepted ==
    [][(fn = "eif" /\ AtDecision /\ RLt(EifThreshold, max_similarity))
          => /\ fuzzy_score' = RAdd(fuzzy_score, max_similarity)
             /\ best_match_orig \in matched_truth']_vars

\* the lexical similarity of the current predicted item and the k-th
\* ground-truth item left after exact matching
LexicalSimilarity(k) ==
    IF fn = "eif"
    THEN string_similarity_eif(unmatched_pred[pi][1], unmatched_truth[k][1])
    ELSE string_similarity(normalize_eif_name(unmatched_pred[pi][2]),
                           normalize_eif_name(unmatched_truth[k][2]))

Unclaimed == {k \in 1..Len(unmatched_truth) : unmatched_truth[k][2] \notin matched_truth}

\* the unclaimed ground-truth items of the highest (positive) lexical similarity
\* to the current predicted item
Highest ==
    {k \in Unclaimed :
        /\ RLt(RZero, LexicalSimilarity(k))
        /\ \A j \in Unclaimed : RLe(LexicalSimilarity(j), LexicalSimilarity(k))}

\* C19: in both scoring functions a later ground-truth item replaces the
\* current best only with a strictly higher similarity, so that when several
\* unclaimed ground-truth items share the highest similarity to a predicted
\* item, the first of them in the ground-truth list is the one selected.
C19_TiesToFirst ==
    [][/\ (pc = "loop" /\ pc' = "loop" /\ pi' = pi /\ best_match_orig' # best_match_orig)
            => /\ RLt(max_similarity, max_similarity')
               /\ best_match_orig' = unmatched_truth[ti][2]
       /\ (AtDecision /\ ~Semantic /\ Highest # {})
            => /\ \A k \in Highest : max_similarity = LexicalSimilarity(k)
               /\ best_match_orig =
                      unmatched_truth[CHOOSE k \in Highest : \A j \in Highest : k <= j][2]]_vars

\* "b a" is lexically as similar to "A b (c)" as to "a b" (both 1.0), and was
\* matched to the one that comes first in the ground-truth list
C19_Witness ==
    /\ Done /\ ~Semantic
    /\ predicted = << <<"b", " ", "a">> >>
    /\ ground_truth = << <<"A", " ", "b", " ", "(", "c", ")">>, <<"a", " ", "b">> >>
    /\ Len(oracle_calls) = 2
    /\ Len(match_details) = 1
    /\ match_details[1].ground_truth = <<"A", " ", "b", " ", "(", "c", ")">>
    /\ match_details[1].score = ROne

\* (p1, t1) comes before (p2, t2) in lexicographic order
LexBefore(c1, c2) == c1.p < c2.p \/ (c1.p = c2.p /\ c1.t < c2.t)

\* the ground-truth original was claimed by a predicted item before item p
ClaimedBefore(truth_orig, p) ==
    \E k \in 1..Len(match_details) :
        match_details[k].p < p /\ match_details[k].ground_truth = truth_orig

\* C20: the oracle calls of one scoring call are made in lexicographic
\* (predicted index, ground-truth index) order over the items left after exact
\* matching; a ground-truth item claimed by an earlier predicted item is never
\* passed to the oracle for a later one, and every other pair is passed once.
C20_OracleCallOrder ==
    /\ \A k1, k2 \in 1..Len(oracle_calls) :
          k1 < k2 => LexBefore(oracle_calls[k1], oracle_calls[k2])
    /\ \A k \in 1..Len(oracle_calls) :
          LET c == oracle_calls[k]
          IN  /\ c.p \in 1..Len(unmatched_pred) /\ c.t \in 1..Len(unmatched_truth)
              /\ c.pred = unmatched_pred[c.p][2] /\ c.truth = unmatched_truth[c.t][2]
              /\ normalize_eif_name(c.pred) \notin ExactNorms
              /\ normalize_eif_name(c.truth) \notin ExactNorms
              /\ ~ClaimedBefore(c.truth, c.p)
    /\ Done =>
          \A p \in 1..Len(unmatched_pred), t \in 1..Len(unmatched_truth) :
              ~ClaimedBefore(unmatched_truth[t][2], p)
                  => \E k \in 1..Len(oracle_calls) :
                        oracle_calls[k].p = p /\ oracle_calls[k].t = t

\* two predicted and two ground-truth items went to the fuzzy stage; the first
\* predicted item claimed the first ground-truth item, which was then withheld
\* from the second: the calls are (1,1), (1,2), (2,2)
C20_Witness ==
    /\ Done
    /\ Len(unmatched_pred) = 2 /\ Len(unmatched_truth) = 2
    /\ Len(match_details) >= 1
    /\ match_details[1].p = 1
    /\ match_details[1].ground_truth = unmatched_truth[1][2]
    /\ Len(oracle_calls) = 3
    /\ oracle_calls[3].p = 2 /\ oracle_calls[3].t = 2

\* how many items of a list have the normalised form n
CountNorm(l, n) == Cardinality({k \in 1..Len(l) : normalize_eif_name(l[k]) = n})

\* how many (norm, orig) pairs left for the fuzzy stage have the normalised form n
CountLeft(l, n) == Cardinality({k \in 1..Len(l) : l[k][1] = n})

\* C21: an exact match consumes one instance of the ground-truth value: when
\* the ground-truth list holds two items of one normalised form and the
\* predicted list holds one item of that form, one of the two ground-truth
\* items is left as a candidate of the fuzzy stage.
C21_ExactConsumesOne ==
    pc \in {"loop", "done"} =>
        \A n \in ExactNorms :
            (CountNorm(ground_truth, n) = 2 /\ CountNorm(predicted, n) = 1)
                => CountLeft(unmatched_truth, n) = 1

\* how many items of list l have a normalised form that no item of list
\* other has
CountWithoutExact(l, other) ==
    Cardinality({k \in 1..Len(l) :
        \A j \in 1..Len(other) : normalize_eif_name(l[k]) # normalize_eif_name(other[j])})

\* C24: at every point of a scoring call the number of oracle calls made so
\* far is at most (predicted items without an exact match) x (ground-truth
\* items without an exact match), hence at most
\* len(predicted) x len(ground_truth).
C24_OracleCallBound ==
    /\ Len(oracle_calls) <= CountWithoutExact(predicted, ground_truth)
                                * CountWithoutExact(ground_truth, predicted)
    /\ Len(oracle_calls) <= Len(predicted) * Len(ground_truth)

\* two predicted and two ground-truth items, none matched exactly and none
\* accepted: the bound of four calls is attained
C24_Witness ==
    /\ Done
    /\ Len(predicted) = 2 /\ Len(ground_truth) = 2
    /\ ReportExactCount = 0
    /\ Len(match_details) = 0
    /\ Len(oracle_calls) = 4

\* C25: in the report of calculate_semantic_similarity on two non-empty
\* lists, every ground-truth item that is not the ground_truth of an exact or
\* a fuzzy match is listed in unmatched_ground_truth.
C25_MissedTruthReported ==
    (Done /\ fn = "sem" /\ predicted # <<>> /\ ground_truth # <<>>) =>
        LET matched == {e.ground_truth : e \in report.exact_matches}
                           \cup {report.matches[k].ground_truth : k \in 1..Len(report.matches)}
        IN  \A j \in 1..Len(ground_truth) :
                ground_truth[j] \notin matched
                    => ground_truth[j] \in Range(report.unmatched_ground_truth)

(***************************************************************************)
(* Claims about greedy matching (specification SpecGreedy)                 *)
(***************************************************************************)
\* the similarity of the p-th predicted and the t-th ground-truth item left
\* after exact matching, when the pair is acceptable (above the threshold)
Acceptable(p, t) ==
    RLt(EifThreshold, string_similarity_eif(unmatched_pred[p][1], unmatched_truth[t][1]))

\* the highest total similarity of a one-to-one assignment of the predicted
\* items p, p+1, ... to ground-truth items outside `used`, over acceptable pairs
RECURSIVE BestAssignment(_, _)
BestAssignment(p, used) ==
    IF p > Len(unmatched_pred) THEN RZero
    ELSE LET skip == BestAssignment(p + 1, used)
             free == {t \in 1..Len(unmatched_truth) : t \notin used /\ Acceptable(p, t)}
             with(t) == RAdd(string_similarity_eif(unmatched_pred[p][1],
                                                   unmatched_truth[t][1]),
                             BestAssignment(p + 1, used \cup {t}))
         IN  IF free = {} THEN skip
             ELSE LET best == CHOOSE t \in free : \A u \in free : RLe(with(u), with(t))
                  IN  RMax(skip, with(best))

GreedyTotal == RAdd(RInt(report.exact_matches), report.fuzzy_score)
OptimalTotal == RAdd(RInt(report.exact_matches), BestAssignment(1, {}))

\* C26: the total of the greedy matching (exact_matches + fuzzy_score) never
\* exceeds the total of the best one-to-one assignment over the same pairs;
\* that it can be strictly lower is shown by the state C26_Witness.
C26_GreedyAtMostOptimal ==
    (Done /\ predicted # <<>> /\ ground_truth # <<>>) => RLe(GreedyTotal, OptimalTotal)

\* "a b c d" takes "a b c d e" (0.8) and leaves "a b c d e f" with "a b c"
\* (0.5, rejected): the greedy total is 0.8, while "a b c d" with "a b c"
\* (0.75) and "a b c d e f" with "a b c d e" (5/6) total 19/12
C26_Witness ==
    /\ Done
    /\ Len(predicted) = 2 /\ Len(ground_truth) = 2
    /\ report.exact_matches = 0
    /\ GreedyTotal = <<4, 5>>
    /\ OptimalTotal = <<19, 12>>
    /\ RLt(GreedyTotal, OptimalTotal)

(***************************************************************************)
(* Claims about an LM that may never answer (specification SpecHang)       *)
(***************************************************************************)
\* C12: whatever each oracle call does - reply, raise, or never return -
\* calculate_eif_similarity is never left waiting for it: at every moment the
\* call is in its own bounded loops or has returned its report.
C12_ScoringCompletes == pc \in {"start", "loop", "done"}

(***************************************************************************)
(* Claims about normalisation (specification SpecNorm)                     *)
(***************************************************************************)
\* C6: two names that differ only by removed elements (letter case, leading or
\* trailing blanks, the length of internal runs of blanks, parentheticals at any
\* place) normalise to the same string.
C6_VariantsNormalizeAlike ==
    n_pc = "edit" => n_result[1] = n_result[2]

(***************************************************************************)
(* Claims about the semantic oracle (specification SpecOracle)             *)
(***************************************************************************)
LmFailed ==
    \/ o_outcome.kind \in {"raise", "empty"}
    \/ /\ o_outcome.kind = "text"
       /\ \A k \in 1..Len(o_outcome.text) : o_outcome.text[k] \notin {"0", "7", "2"}

\* C10: the semantic oracle never raises, and when the LM raises, gives no reply
\* text or gives a text without a number, it returns the lexical similarity of
\* the same pair: _string_similarity(name1, name2) in check_eif_semantic_similarity,
\* string_similarity of the normalised names in llm_semantic_similarity.
C10_FallbackOnFailure ==
    o_pc = "done" =>
        /\ ~o_result.raised
        /\ (o_lm /\ o_use /\ LmFailed) =>
              o_result.value =
                  IF o_fn = "eif"
                  THEN string_similarity_eif(o_name1, o_name2)
                  ELSE string_similarity(normalize_eif_name(o_name1),
                                         normalize_eif_name(o_name2))

\* the LM raised on a pair whose raw and normalised names score differently
C10_Witness ==
    /\ o_pc = "done" /\ o_fn = "eif" /\ o_lm /\ o_use
    /\ o_outcome = LmRaise
    /\ RLt(RZero, o_result.value)
    /\ string_similarity_eif(normalize_eif_name(o_name1), normalize_eif_name(o_name2))
           # o_result.value

\* the LM was asked: always in llm_semantic_similarity when there is one, in
\* check_eif_semantic_similarity when use_lm is set as well
LmAsked == o_lm /\ (o_fn = "eif" => o_use)

\* u is a numeral: digits, then optionally a point and digits
IsNumeral(u) ==
    \E k \in 1..Len(u) :
        /\ \A j \in 1..k : IsDigit(u[j])
        /\ \/ k = Len(u)
           \/ u[k + 1] = "." /\ \A j \in (k + 2)..Len(u) : IsDigit(u[j])

NumeralValue(u) ==
    LET k == CHOOSE i \in 1..Len(u) :
                 /\ \A j \in 1..i : IsDigit(u[j])
                 /\ i = Len(u) \/ ~IsDigit(u[i + 1])
        frac == SubSeq(u, k + 2, Len(u))
    IN Rat(DigitsValue(SubSeq(u, 1, k)) * Pow10(Len(frac)) + DigitsValue(frac),
           Pow10(Len(frac)))

\* the longest numeral that starts at the first digit of the reply
LeadingNumber(t) ==
    LET s == CHOOSE i \in 1..Len(t) : IsDigit(t[i]) /\ \A j \in 1..(i - 1) : ~IsDigit(t[j])
        e == CHOOSE i \in s..Len(t) :
                 /\ IsNumeral(SubSeq(t, s, i))
                 /\ \A j \in (i + 1)..Len(t) : ~IsNumeral(SubSeq(t, s, j))
    IN NumeralValue(SubSeq(t, s, e))

\* C11: whatever the LM replies, the result of the semantic oracle lies in
\* [0,1]; when the reply holds a number the first one is used, and returned
\* as 1 when it is above 1.
C11_OracleInUnitInterval ==
    o_pc = "done" =>
        /\ InUnit(o_result.value)
        /\ (LmAsked /\ o_outcome.kind = "text"
                /\ \E k \in 1..Len(o_outcome.text) : IsDigit(o_outcome.text[k])) =>
              o_result.value =
                  IF RLt(ROne, LeadingNumber(o_outcome.text)) THEN ROne
                  ELSE LeadingNumber(o_outcome.text)

\* the reply holds a number above 1 and then a number below 1
C11_Witness ==
    /\ o_pc = "done" /\ o_fn = "eif" /\ LmAsked
    /\ o_outcome = LmText(<<"7", " ", "0">>)
    /\ o_result.value = ROne

\* C23: with a DeepSeek instance as the LM of the semantic oracle, when the
\* service replies with a text that holds a decimal d in [0,1],
\* check_eif_semantic_similarity returns d and not the lexical fallback.
C23_DeepSeekScoreReturned ==
    (o_pc = "done" /\ o_outcome.kind = "text"
        /\ (\E k \in 1..Len(o_outcome.text) : IsDigit(o_outcome.text[k]))
        /\ RLe(LeadingNumber(o_outcome.text), ROne))
    => o_result.value = LeadingNumber(o_outcome.text)

NoWhitespace(s) == s # <<>> /\ \A k \in 1..Len(s) : ~IsSpace(s[k])

\* C22: for two non-empty names without whitespace, _string_similarity is the
\* Jaccard index of their character sets, so two such names that share some
\* but not all of their characters score strictly between 0 and 1.
C22_CharacterJaccard ==
    (o_pc = "done" /\ o_fn = "eif" /\ ~(o_lm /\ o_use)
        /\ NoWhitespace(o_name1) /\ NoWhitespace(o_name2)) =>
        /\ o_result.value = Jaccard(CharSet(o_name1), CharSet(o_name2))
        /\ (CharSet(o_name1) \cap CharSet(o_name2) # {} /\ CharSet(o_name1) # CharSet(o_name2))
              => RLt(RZero, o_result.value) /\ RLt(o_result.value, ROne)

(***************************************************************************)
(* Claims about extract_answer (specification SpecExtract)                 *)
(***************************************************************************)
ExtractDone == e_pc = "done"

EndsWith(text, tail) ==
    /\ text # None
    /\ Len(text) >= Len(tail)
    /\ SubSeq(text, Len(text) - Len(tail) + 1, Len(text)) = tail

\* the text is an analysis without a labelled list, followed by the final
\* line "<label>: [n1, ..., nk]" of plain names
EndsWithList(text, parser, names) ==
    /\ EndsWith(text, Bracketed(names))
    /\ \E pre \in Analyses, label \in Labels(parser), gap \in {<<>>, <<Sp>>} :
          text = pre \o FinalLine(label, gap, Bracketed(names))

\* C7: for a text, short or longer than 500 characters, whose only labelled
\* list is its final line "<label>: [n1, ..., nk]", extract_answer returns
\* exactly <<n1, ..., nk>>: nothing dropped, added or reordered.
C7_FinalLineList ==
    ExtractDone =>
        \A names \in NameLists :
            EndsWithList(e_input, e_parser, names) => e_result = names

C7_Witness ==
    /\ ExtractDone
    /\ TextLen(e_input) > LongText
    /\ e_stage = "conclusion"
    /\ EndsWithList(e_input, e_parser, <<<<Job, Sp, Emp>>, <<Emp>>, <<Job>>>>)
    /\ e_result = <<<<Job, Sp, Emp>>, <<Emp>>, <<Job>>>>

\* C8: whichever handler receives the sentinel as its answer text (the
\* long-text conclusion, a labelled pattern or the whole-text fallback),
\* extract_answer returns the empty list and never the sentinel as a name.
C8_SentinelShortCircuits ==
    (ExtractDone /\ e_answer \in Sentinels) =>
        /\ e_result = <<>>
        /\ \A i \in 1..Len(e_result) : e_result[i] \notin Sentinels

\* C9: extract_answer never raises, for any text and for an empty or missing
\* one: it is always at one of its handlers or has returned, it consults
\* eight handlers at most, what it returns is a list of names, and the list
\* is empty when no handler yielded a result.
C9_Total ==
    /\ e_pc \in {"start", "conclusion", "tail", "numbered_title", "patterns",
                 "whole_text", "bold_list", "section_list", "done"}
    /\ Len(e_trace) <= 8
    /\ ExtractDone =>
          /\ e_result \in Seq(Seq(STRING))
          /\ e_stage \in {"none", "missing"} => e_result = <<>>

C9_Witness ==
    /\ ExtractDone
    /\ e_parser = "eif"
    /\ TextLen(e_input) > LongText
    /\ Len(e_trace) = 8
    /\ e_stage = "none"
    /\ e_result = <<>>

\* C15: for a text longer than 500 characters that holds the same
\* final-conclusion label twice with different lists, the scratch restatement
\* first and the final list last, extract_answer returns the list of the last
\* occurrence.
C15_TrailingOccurrence ==
    ExtractDone =>
        \A label \in Labels(e_parser), scratch \in RestatedLists, final \in RestatedLists :
            (scratch # final /\ e_input = Restated(label, scratch, final)
                /\ TextLen(e_input) > LongText)
            => e_result = final

\* C16: no name returned by extract_answer is as long as the cap of its
\* program (50 characters in eif_selection, 80 in
\* transaction_selection_inference), whichever handler returned it.
C16_NoLongItem ==
    ExtractDone => \A i \in 1..Len(e_result) : TextLen(e_result[i]) < Cap(e_parser)

\* the handlers that scan for a numbered list
ScanStages == {"numbered_title", "bold_list", "section_list"}

Consulted(stage) == \E j \in 1..Len(e_trace) : e_trace[j] = stage

\* C17: in eif_selection the numbered-list scans are the last resort of the
\* cascade: a list is returned by one of them only when the labelled patterns
\* and the whole-text handlers (delimiter-separated list, single name) have
\* been consulted before it and did not return.
C17_ScanIsLastResort ==
    (ExtractDone /\ e_parser = "eif" /\ e_stage \in ScanStages) =>
        Consulted("patterns") /\ Consulted("whole_text")

(***************************************************************************)
(* Claims about run (specification SpecRun)                                *)
(***************************************************************************)
\* C27: in run an execution of a method for a sample is started only with
\* budget left (the budget it found was > 0); the cost of every started
\* execution has been deducted from the budget, also when its executor
\* raised; and the value run returns is the sum of lm.cost over the
\* executions that were started.
C27_BudgetedRun ==
    /\ r_count > 0 =>
          /\ r_last.budget_before > 0
          /\ r_budget = r_last.budget_before - r_last.cost
    /\ r_budget = r_orig - r_spent
    /\ r_pc = "done" => r_result = r_spent

\* run has returned with samples left over, after two or more executions the
\* last of which raised, cost something and used the budget up.
C27_Witness ==
    /\ r_pc = "done"
    /\ r_count >= 2
    /\ r_last.raised
    /\ r_last.cost > 0
    /\ r_budget <= 0
    /\ r_data <= r_ndata
    /\ r_result = r_spent

(***************************************************************************)
(* Claims about the scoring configuration (specification SpecConfig)       *)
(***************************************************************************)
\* C28: a scoring call that runs while another thread calls set_scoring_lm
\* scores with a pair (lm, use_semantic) that one call of set_scoring_lm
\* was given, or with the initial pair (None, False), never with the lm of
\* one setting and the flag of another.
C28_ConsistentPair ==
    c_pc = "scoring" => <<c_lm, use_lm_semantic>> \in installed

\* C29: scoring asks the LM only when semantic scoring is enabled and an LM
\* is set.  A scoring call that read use_semantic = False or lm = None, as it
\* does in the initial module state and after any sequence of set_scoring_lm
\* calls that ends so, makes no LM call, and scores every pair with
\* _string_similarity of the normalised names: the score that reaches the
\* acceptance test is the highest such score over the unclaimed items.
C29_NoQueryWhenDisabled ==
    (c_pc = "scoring" /\ ~Semantic) =>
        /\ \A c \in Calls : ~c.semantic
        /\ AtDecision =>
              IF Highest = {}
              THEN max_similarity = RZero
              ELSE \A k \in Highest : max_similarity = LexicalSimilarity(k)

\* two calls of set_scoring_lm had returned before the scoring call read the
\* globals, the last with an LM and use_semantic = False; the call compared
\* "b a" with "A b (c)" lexically and matched them with score 1.0
C29_Witness ==
    /\ c_pc = "scoring" /\ Done
    /\ c_seen >= 2
    /\ c_lm = "A" /\ lm /\ ~use_lm_semantic
    /\ oracle_calls # <<>>
    /\ \A c \in Calls : ~c.semantic
    /\ Len(match_details) = 1
    /\ match_details[1].score = ROne

(***************************************************************************)
(* Claims about degraded semantic scoring (specification SpecDegraded)     *)
(***************************************************************************)
\* C30: when every LM call of a scoring call with semantic scoring enabled
\* fails, calculate_eif_similarity returns the same report (matches,
\* fuzzy_score, precision, recall, f1) as the same call with semantic scoring
\* disabled.
C30_DegradedEqualsLexical ==
    (d_pc = "lexical" /\ Done) => report = d_report

====
